---- MODULE Spec2Model ----
(***************************************************************************)
(* A model of colorcat: the theme manager of colorcat-config-wip.py (theme *)
(* registry, modifier, validator, offset engine) and the offset engine of  *)
(* colorcat.py.                                                            *)
(*                                                                         *)
(* Text is modelled as a sequence of one-character strings, so that        *)
(* str.split, the regular expressions and the YAML scalar resolver are     *)
(* computed character by character.  A Python value is a tagged record     *)
(* [t |-> type, v |-> payload]; a dict's payload is a function from keys   *)
(* (texts) to values, a list's payload a sequence of values.               *)
(***************************************************************************)
EXTENDS Integers, Sequences, FiniteSets, TLC

\* ------------------------------------------------------------------ bounds
\* Longest batch of edits handed to apply_modifications in one call.
MaxEdits == 2
\* Operations performed on one theme registry after its construction.
MaxOps == 3

\* -------------------------------------------------------------------- text
ESC == "^["
Digits == {"0", "1", "2", "3", "4", "5", "6", "7", "8", "9"}
Letters == {"a", "b", "c", "d", "e", "f", "g", "h", "i", "j", "k", "l", "m",
            "n", "o", "p", "q", "r", "s", "t", "u", "v", "w", "x", "y", "z",
            "A", "L"}
WordChars == Letters \cup Digits \cup {"_"}
Whitespace == {" "}

DigitVal(c) ==
  CASE c = "0" -> 0 [] c = "1" -> 1 [] c = "2" -> 2 [] c = "3" -> 3
    [] c = "4" -> 4 [] c = "5" -> 5 [] c = "6" -> 6 [] c = "7" -> 7
    [] c = "8" -> 8 [] c = "9" -> 9

DigitChar(n) == <<"0", "1", "2", "3", "4", "5", "6", "7", "8", "9">>[n + 1]

\* int(s) for a non-empty run of decimal digits
RECURSIVE ParseDigits(_)
ParseDigits(s) ==
  IF Len(s) = 0 THEN 0
  ELSE 10 * ParseDigits(SubSeq(s, 1, Len(s) - 1)) + DigitVal(s[Len(s)])

\* str(n) for an integer n
RECURSIVE NatText(_)
NatText(n) == IF n < 10 THEN <<DigitChar(n)>>
              ELSE NatText(n \div 10) \o <<DigitChar(n % 10)>>
IntText(n) == IF n < 0 THEN <<"-">> \o NatText(0 - n) ELSE NatText(n)

\* s.split(sep) for a one-character separator
RECURSIVE Split(_, _)
Split(s, sep) ==
  IF \E i \in 1..Len(s) : s[i] = sep
  THEN LET i == CHOOSE i \in 1..Len(s) :
                  s[i] = sep /\ \A j \in 1..(i - 1) : s[j] # sep
       IN  <<SubSeq(s, 1, i - 1)>> \o Split(SubSeq(s, i + 1, Len(s)), sep)
  ELSE <<s>>

\* `sub in s` for two strings
Contains(s, sub) ==
  \E i \in 0..(Len(s) - Len(sub)) : SubSeq(s, i + 1, i + Len(sub)) = sub

\* --------------------------------------------------------- Python values
StrV(s) == [t |-> "str", v |-> s]
IntV(n) == [t |-> "int", v |-> n]
BoolV(b) == [t |-> "bool", v |-> b]
ListV(l) == [t |-> "list", v |-> l]
DictV(f) == [t |-> "dict", v |-> f]
NoneV == [t |-> "none", v |-> 0]

\* ------------------------------------------------------ names in the source
offset_settings == <<"o", "f", "f", "s", "e", "t", "_", "s", "e", "t", "t",
    "i", "n", "g", "s">>
default_fg_offset == <<"d", "e", "f", "a", "u", "l", "t", "_", "f", "g",
    "_", "o", "f", "f", "s", "e", "t">>
config_settings == <<"c", "o", "n", "f", "i", "g", "_", "s", "e", "t", "t",
    "i", "n", "g", "s">>
line_numbering == <<"l", "i", "n", "e", "_", "n", "u", "m", "b", "e", "r",
    "i", "n", "g">>
theme_name_key == <<"t", "h", "e", "m", "e", "_", "n", "a", "m", "e">>
color_settings == <<"c", "o", "l", "o", "r", "_", "s", "e", "t", "t", "i",
    "n", "g", "s">>
comma == <<"c", "o", "m", "m", "a">>
colon == <<"c", "o", "l", "o", "n">>
fg_color == <<"f", "g", "_", "c", "o", "l", "o", "r">>
chars == <<"c", "h", "a", "r", "s">>
default == <<"d", "e", "f", "a", "u", "l", "t">>
mytheme == <<"m", "y", "t", "h", "e", "m", "e">>
all == <<"a", "l", "l">>
comma_fg == <<ESC, "[", "3", "8", ";", "5", ";", "1", "1", "2", "m">>

\* -------------------------------------------------------------------- YAML
\* A YAML file is held as its node tree.  A scalar node keeps what the text
\* of the file keeps: the characters and whether they are written plain or
\* quoted.  The type of a plain scalar is not stored: the loader resolves it
\* from the characters (PyYAML's implicit resolver, YAML 1.1).
IsDecimal(s) ==
  /\ Len(s) > 0
  /\ \A i \in 1..Len(s) : s[i] \in Digits
  /\ (Len(s) > 1 => s[1] # "0")

IsOctal(s) ==
  /\ Len(s) > 1
  /\ s[1] = "0"
  /\ \A i \in 2..Len(s) : s[i] \in {"0", "1", "2", "3", "4", "5", "6", "7"}

Unsigned(s) == IF Len(s) > 0 /\ s[1] \in {"-", "+"} THEN Tail(s) ELSE s

yaml_true == {<<"t", "r", "u", "e">>, <<"y", "e", "s">>, <<"o", "n">>}
yaml_false == {<<"f", "a", "l", "s", "e">>, <<"n", "o">>, <<"o", "f", "f">>}
yaml_null == {<<>>, <<"~">>, <<"n", "u", "l", "l">>}

\* Resolver.resolve for a scalar: the implicit tag of its characters
yaml_resolve(s) ==
  IF s \in yaml_null THEN "none"
  ELSE IF s \in yaml_true \cup yaml_false THEN "bool"
  ELSE IF IsDecimal(Unsigned(s)) \/ IsOctal(Unsigned(s)) THEN "int"
  ELSE "str"

\* the emitter writes a string plain only when its characters allow it
PlainAllowed(s) == Len(s) > 0 /\ \A i \in 1..Len(s) : s[i] \in WordChars

Scalar(text, plain) == [k |-> "scalar", text |-> text, plain |-> plain]

\* a mutant of represent_str: every string is written plain
represent_str_always_plain(s) == Scalar(s, TRUE)

\* SafeRepresenter.represent_str and the emitter's choice of style: a string
\* is quoted unless its plain form resolves to a string again
represent_str(s) == Scalar(s, yaml_resolve(s) = "str" /\ PlainAllowed(s))

\* yaml.dump(value): the node tree written to the file
RECURSIVE yaml_dump(_)
yaml_dump(x) ==
  CASE x.t = "str" -> represent_str(x.v)
    [] x.t = "int" -> Scalar(IntText(x.v), TRUE)
    [] x.t = "bool" ->
         Scalar(IF x.v THEN <<"t", "r", "u", "e">>
                ELSE <<"f", "a", "l", "s", "e">>, TRUE)
    [] x.t = "none" -> Scalar(<<"n", "u", "l", "l">>, TRUE)
    [] x.t = "list" ->
         [k |-> "seq", items |-> [i \in 1..Len(x.v) |-> yaml_dump(x.v[i])]]
    [] x.t = "dict" ->
         [k |-> "map",
          entries |-> [key \in DOMAIN x.v |-> yaml_dump(x.v[key])]]

\* SafeConstructor.construct_yaml_int
construct_int(s) ==
  LET u == Unsigned(s)
      n == IF IsOctal(u)
           THEN LET RECURSIVE Oct(_)
                    Oct(d) == IF Len(d) = 0 THEN 0
                              ELSE 8 * Oct(SubSeq(d, 1, Len(d) - 1))
                                   + DigitVal(d[Len(d)])
                IN  Oct(u)
           ELSE ParseDigits(u)
  IN  IF Len(s) > 0 /\ s[1] = "-" THEN 0 - n ELSE n

construct_scalar(node) ==
  LET tag == IF node.plain THEN yaml_resolve(node.text) ELSE "str"
  IN  CASE tag = "str" -> StrV(node.text)
        [] tag = "int" -> IntV(construct_int(node.text))
        [] tag = "bool" -> BoolV(node.text \in yaml_true)
        [] tag = "none" -> NoneV

\* yaml.safe_load(file): the Python value built from the node tree
RECURSIVE yaml_safe_load(_)
yaml_safe_load(node) ==
  CASE node.k = "scalar" -> construct_scalar(node)
    [] node.k = "seq" ->
         ListV([i \in 1..Len(node.items) |-> yaml_safe_load(node.items[i])])
    [] node.k = "map" ->
         DictV([key \in DOMAIN node.entries |->
                  yaml_safe_load(node.entries[key])])

\* ----------------------------------------------------------- theme document
\* The theme document of get_default_theme_config, cut to one entry for each
\* section and each type of leaf (integer, boolean, string, list).
ThemeDoc(off, ln, name, fg, ch) ==
  DictV(offset_settings :> DictV(default_fg_offset :> IntV(off))
     @@ config_settings :> DictV(line_numbering :> BoolV(ln)
                              @@ theme_name_key :> StrV(name))
     @@ color_settings :> DictV(comma :> DictV(fg_color :> StrV(fg)
                                            @@ chars :> ListV(ch))))

get_default_theme_config ==
  ThemeDoc(0, FALSE, default, comma_fg, <<StrV(<<",">>)>>)

\* ---------------------------------------------------------------- modifier
\* shlex.split(s) for text holding no quote and no backslash: the runs of
\* characters between whitespace
RECURSIVE shlex_split(_)
shlex_split(s) ==
  IF Len(s) = 0 THEN <<>>
  ELSE IF s[1] \in Whitespace THEN shlex_split(Tail(s))
  ELSE LET ends == {i \in 1..Len(s) : s[i] \in Whitespace}
           n == IF ends = {} THEN Len(s)
                ELSE (CHOOSE i \in ends : \A j \in ends : i <= j) - 1
       IN  <<SubSeq(s, 1, n)>> \o shlex_split(SubSeq(s, n + 1, Len(s)))

\* `part in ref` (Python's operator `in`): "TypeError" where the right
\* operand is not a container
py_in(part, ref) ==
  CASE ref.t = "dict" -> IF part \in DOMAIN ref.v THEN "yes" ELSE "no"
    [] ref.t = "str" -> IF Contains(ref.v, part) THEN "yes" ELSE "no"
    [] ref.t = "list" ->
         IF \E i \in 1..Len(ref.v) : ref.v[i] = StrV(part) THEN "yes"
         ELSE "no"
    [] OTHER -> "TypeError"

RECURSIVE get_at(_, _)
get_at(doc, path) ==
  IF path = <<>> THEN doc ELSE get_at(doc.v[Head(path)], Tail(path))

RECURSIVE set_at(_, _, _)
set_at(doc, path, val) ==
  IF path = <<>> THEN val
  ELSE DictV([key \in DOMAIN doc.v |->
                IF key = Head(path)
                THEN set_at(doc.v[key], Tail(path), val)
                ELSE doc.v[key]])

\* the loop over path_parts[:-1]: where dict_ref ends up (the keys followed
\* from the root), or the exception raised on the way
RECURSIVE walk(_, _, _)
walk(doc, parts, path) ==
  IF parts = <<>> THEN [path |-> path, err |-> "none"]
  ELSE LET dict_ref == get_at(doc, path)
           found == py_in(Head(parts), dict_ref)
       IN  IF found = "TypeError" THEN [path |-> path, err |-> "TypeError"]
           ELSE IF found = "no" THEN [path |-> path, err |-> "none"]
           ELSE IF dict_ref.t # "dict"
                THEN [path |-> path, err |-> "TypeError"]
           ELSE walk(doc, Tail(parts), Append(path, Head(parts)))

\* a mutant of leaf_value: a list leaf takes the new value whole
leaf_value_no_split(old, value) ==
  IF old.t = "str" THEN StrV(value)
  ELSE IF old.t = "list" THEN ListV(<<StrV(value)>>)
  ELSE old

\* what the leaf becomes: the isinstance chain at the end of the loop body
leaf_value(old, value) ==
  IF old.t = "str" THEN StrV(value)
  ELSE IF old.t = "list"
       THEN LET parts == Split(value, ",")
            IN  ListV([i \in 1..Len(parts) |-> StrV(parts[i])])
  ELSE old

\* a loop body that raises KeyError when the leaf key is absent
apply_one_raises_on_absent_leaf(doc, modification) ==
  LET kv == Split(modification, "=")
  IN  IF Len(kv) # 2 THEN [doc |-> doc, err |-> "ValueError"]
      ELSE
      LET path_parts == Split(kv[1], ".")
          last == path_parts[Len(path_parts)]
          w == walk(doc, SubSeq(path_parts, 1, Len(path_parts) - 1), <<>>)
          dict_ref == get_at(doc, w.path)
          found == py_in(last, dict_ref)
      IN  IF w.err # "none" THEN [doc |-> doc, err |-> w.err]
          ELSE IF found = "TypeError" THEN [doc |-> doc, err |-> "TypeError"]
          ELSE IF found = "no" THEN [doc |-> doc, err |-> "KeyError"]
          ELSE IF dict_ref.t # "dict" THEN [doc |-> doc, err |-> "TypeError"]
          ELSE [doc |-> set_at(doc, Append(w.path, last),
                               leaf_value(dict_ref.v[last], kv[2])),
                err |-> "none"]

\* one pass of the loop body of apply_modifications on one modification
apply_one(doc, modification) ==
  LET kv == Split(modification, "=")
  IN  IF Len(kv) # 2 THEN [doc |-> doc, err |-> "ValueError"]
      ELSE
      LET path_parts == Split(kv[1], ".")
          last == path_parts[Len(path_parts)]
          w == walk(doc, SubSeq(path_parts, 1, Len(path_parts) - 1), <<>>)
          dict_ref == get_at(doc, w.path)
          found == py_in(last, dict_ref)
      IN  IF w.err # "none" THEN [doc |-> doc, err |-> w.err]
          ELSE IF found = "TypeError" THEN [doc |-> doc, err |-> "TypeError"]
          ELSE IF found = "no" THEN [doc |-> doc, err |-> "none"]
          ELSE IF dict_ref.t # "dict" THEN [doc |-> doc, err |-> "TypeError"]
          ELSE [doc |-> set_at(doc, Append(w.path, last),
                               leaf_value(dict_ref.v[last], kv[2])),
                err |-> "none"]

\* the loop of apply_modifications: one record for each modification that was
\* started, with the document before and after it; an exception ends the loop
RECURSIVE run_modifications(_, _)
run_modifications(doc, modifications) ==
  IF modifications = <<>> THEN <<>>
  ELSE LET r == apply_one(doc, Head(modifications))
           step == [modification |-> Head(modifications), before |-> doc,
                    after |-> r.doc, err |-> r.err]
       IN  IF r.err # "none" THEN <<step>>
           ELSE <<step>> \o run_modifications(r.doc, Tail(modifications))

\* --------------------------------------------------------------- validator
\* A required structure is the sequence of its items in the order of the dict
\* literal: kind is "dict" for a nested structure (sub holds it) and the name
\* of the expected Python type for a leaf.
Leaf(key, type) == [key |-> key, kind |-> type, sub |-> <<>>]
Nested(key, sub) == [key |-> key, kind |-> "dict", sub |-> sub]

\* required_structure of validate_theme_config, cut like ThemeDoc
required_structure ==
  << Nested(offset_settings, <<Leaf(default_fg_offset, "int")>>),
     Nested(config_settings, <<Leaf(line_numbering, "bool"),
                               Leaf(theme_name_key, "str")>>),
     Nested(color_settings,
            <<Nested(comma, <<Leaf(fg_color, "str"),
                              Leaf(chars, "list")>>)>>) >>

\* isinstance(value, type): bool is a subclass of int in Python
isinstance(value, type) ==
  CASE type = "int" -> value.t \in {"int", "bool"}
    [] type = "bool" -> value.t = "bool"
    [] type = "str" -> value.t = "str"
    [] type = "list" -> value.t = "list"
    [] type = "dict" -> value.t = "dict"

\* config.get(key)
dict_get_or_none(config, key) ==
  IF key \in DOMAIN config.v THEN config.v[key] ELSE NoneV

RECURSIVE Join(_, _)
Join(pieces, sep) ==
  IF Len(pieces) = 0 THEN <<>>
  ELSE IF Len(pieces) = 1 THEN pieces[1]
  ELSE pieces[1] \o <<sep>> \o Join(Tail(pieces), sep)

\* a check that goes on below a sub-mapping it has reported as missing
RECURSIVE check_structure_descends(_, _, _)
check_structure_descends(config, structure, path) ==
  IF structure = <<>> THEN [missing |-> <<>>, incorrect_type |-> <<>>]
  ELSE
  LET key == Head(structure).key
      expected_type == Head(structure).kind
      actual_value == dict_get_or_none(config, key)
      new_path == Append(path, key)
      below == check_structure_descends(DictV(<<>>), Head(structure).sub,
                                        new_path)
      here ==
        IF expected_type = "dict"
        THEN IF actual_value.t = "none" \/ ~isinstance(actual_value, "dict")
             THEN [missing |-> <<Join(new_path, ".")>> \o below.missing,
                   incorrect_type |-> <<>>]
             ELSE check_structure_descends(actual_value, Head(structure).sub,
                                           new_path)
        ELSE IF actual_value.t = "none"
             THEN [missing |-> <<Join(new_path, ".")>>,
                   incorrect_type |-> <<>>]
        ELSE IF ~isinstance(actual_value, expected_type)
             THEN [missing |-> <<>>,
                   incorrect_type |-> <<Join(new_path, ".")>>]
        ELSE [missing |-> <<>>, incorrect_type |-> <<>>]
      rest == check_structure_descends(config, Tail(structure), path)
  IN  [missing |-> here.missing \o rest.missing,
       incorrect_type |-> here.incorrect_type \o rest.incorrect_type]

RECURSIVE check_structure(_, _, _)
check_structure(config, structure, path) ==
  IF structure = <<>> THEN [missing |-> <<>>, incorrect_type |-> <<>>]
  ELSE
  LET key == Head(structure).key
      expected_type == Head(structure).kind
      actual_value == dict_get_or_none(config, key)
      new_path == Append(path, key)
      here ==
        IF expected_type = "dict"
        THEN IF actual_value.t = "none" \/ ~isinstance(actual_value, "dict")
             THEN [missing |-> <<Join(new_path, ".")>>,
                   incorrect_type |-> <<>>]
             ELSE check_structure(actual_value, Head(structure).sub, new_path)
        ELSE IF actual_value.t = "none"
             THEN [missing |-> <<Join(new_path, ".")>>,
                   incorrect_type |-> <<>>]
        ELSE IF ~isinstance(actual_value, expected_type)
             THEN [missing |-> <<>>,
                   incorrect_type |-> <<Join(new_path, ".")>>]
        ELSE [missing |-> <<>>, incorrect_type |-> <<>>]
      rest == check_structure(config, Tail(structure), path)
  IN  [missing |-> here.missing \o rest.missing,
       incorrect_type |-> here.incorrect_type \o rest.incorrect_type]

VARIABLES
  config,          \* the document handed to check_structure
  structure,       \* the required structure handed to check_structure
  missing,         \* the first list returned
  incorrect_type,  \* the second list returned
  checked          \* whether check_structure has returned

valVars == <<config, structure, missing, incorrect_type, checked>>

\* what a YAML file may hold at a key: nothing, a null, or a value of any type
Absent == [t |-> "absent", v |-> 0]
AnyValue == {Absent, NoneV, IntV(7), BoolV(TRUE), StrV(<<"x">>), ListV(<<>>)}

\* a mapping with the given keys, without those whose value is Absent
Mapping(keys, value) ==
  DictV([key \in {k \in DOMAIN value : value[k] # Absent} |-> value[key]])

Documents ==
  { Mapping({offset_settings, config_settings, color_settings},
      offset_settings :> os @@ config_settings :> cs @@ color_settings :> co) :
      os \in {Absent, StrV(<<"x">>)}
             \cup {Mapping({default_fg_offset}, default_fg_offset :> a) :
                     a \in AnyValue},
      cs \in {Mapping({line_numbering, theme_name_key},
                      line_numbering :> a @@ theme_name_key :> b) :
                a \in AnyValue, b \in {Absent, StrV(<<"x">>), IntV(7)}},
      co \in {Absent,
              Mapping({comma}, comma :> ListV(<<>>)),
              Mapping({comma}, comma :>
                Mapping({fg_color, chars},
                        fg_color :> StrV(<<"x">>) @@ chars :> ListV(<<>>))),
              Mapping({comma}, comma :>
                Mapping({fg_color, chars},
                        fg_color :> StrV(<<"x">>) @@ chars :> StrV(<<"x">>)))} }

Structures ==
  { required_structure,
    <<Leaf(offset_settings, "str"), Nested(config_settings, <<>>)>>,
    <<Nested(config_settings, <<Leaf(theme_name_key, "int")>>)>> }

ValidatorIdle ==
  /\ config = NoneV
  /\ structure = <<>>
  /\ missing = <<>>
  /\ incorrect_type = <<>>
  /\ checked = FALSE

ValidatorInit ==
  /\ config \in Documents
  /\ structure \in Structures
  /\ missing = <<>>
  /\ incorrect_type = <<>>
  /\ checked = FALSE

CheckStructure ==
  /\ ~checked
  /\ missing' = check_structure(config, structure, <<>>).missing
  /\ incorrect_type' = check_structure(config, structure, <<>>).incorrect_type
  /\ checked' = TRUE
  /\ UNCHANGED <<config, structure>>

\* ---------------------------------------------------------- theme registry
VARIABLES
  theme_name,   \* ColorCatThemes.theme_name
  current,      \* ColorCatThemes.colorcat_current_theme_config
  themes,       \* the themes directory: theme name -> YAML file, or NoFile
  loaded,       \* what the last load_theme_config returned
  log,          \* the last two operations on the registry
  request,      \* the edits the caller of apply_modifications meant
  steps,        \* the passes of the last apply_modifications loop
  err,          \* the exception that ended the process, or "none"
  nops,         \* operations since Init
  dir_exists,   \* whether the themes directory exists
  others,       \* names of the other files in the themes directory
  autogen,      \* the autogen-themes directory: name -> YAML file, or NoFile
  before,       \* directories and current theme when the last operation began
  result,       \* the last operation: its argument, return value and listing
  saved         \* names with a file before the program ran or saved since

regVars == <<theme_name, current, themes, loaded, log, request, steps, err,
             nops, dir_exists, others, autogen, before, result, saved>>

NoFile == [k |-> "nofile"]
ThemeNames == {default, mytheme}
NoOp == [op |-> "none", name |-> <<>>, doc |-> NoneV]
NoRequest == [pairs |-> <<>>, sep |-> " "]
NoFiles == [name \in ThemeNames |-> NoFile]

\* the directories and the current theme as they are
Snapshot(fs, exists, rest, gen, doc) ==
  [themes |-> fs, dir_exists |-> exists, others |-> rest, autogen |-> gen,
   current |-> doc]
Now == Snapshot(themes, dir_exists, others, autogen, current)

\* what an operation returned and listed
Result(op, name, returned, listed) ==
  [op |-> op, name |-> name, returned |-> returned, listed |-> listed]

\* documents a user's theme file may hold; the last has a number where the
\* required structure has a string
StoredDocs ==
  { get_default_theme_config,
    set_at(get_default_theme_config, <<config_settings, theme_name_key>>,
           IntV(5)),
    ThemeDoc(12, TRUE, <<"1", "2">>, comma_fg, <<>>),
    ThemeDoc(0 - 3, FALSE, <<"t", "r", "u", "e">>, <<>>,
             <<StrV(<<"0", "1", "2">>), StrV(<<>>)>>) }

\* a mutant of load_theme_config: nothing to fall back on
load_theme_config_no_fallback(fs, name) ==
  IF fs[name] # NoFile THEN yaml_safe_load(fs[name]) ELSE NoneV

\* load_theme_config: the value returned for theme `name`
load_theme_config(fs, name) ==
  IF fs[name] # NoFile THEN yaml_safe_load(fs[name])
  ELSE get_default_theme_config

\* create_default_theme_config_file: the themes directory afterwards
create_default_theme_config_file(fs) ==
  IF fs[default] = NoFile
  THEN [fs EXCEPT ![default] = yaml_dump(get_default_theme_config)]
  ELSE fs

\* a mutant of Constructed: the default file is written on both branches
Constructed_writes_default(fs, name) ==
  IF name # <<>> /\ name # default
  THEN [theme_name |-> name, current |-> load_theme_config(fs, name),
        themes |-> create_default_theme_config_file(fs),
        loaded |-> load_theme_config(fs, name),
        entry |-> [op |-> "load", name |-> name,
                   doc |-> load_theme_config(fs, name)]]
  ELSE [theme_name |-> name, current |-> get_default_theme_config,
        themes |-> create_default_theme_config_file(fs), loaded |-> NoneV,
        entry |-> [op |-> "construct", name |-> name,
                   doc |-> get_default_theme_config]]

\* __init__(theme_name=name) on the themes directory fs
Constructed(fs, name) ==
  IF name # <<>> /\ name # default
  THEN [theme_name |-> name, current |-> load_theme_config(fs, name),
        themes |-> fs, loaded |-> load_theme_config(fs, name),
        entry |-> [op |-> "load", name |-> name,
                   doc |-> load_theme_config(fs, name)]]
  ELSE [theme_name |-> name, current |-> get_default_theme_config,
        themes |-> create_default_theme_config_file(fs), loaded |-> NoneV,
        entry |-> [op |-> "construct", name |-> name,
                   doc |-> get_default_theme_config]]

InitialThemes ==
  { (default :> d @@ mytheme :> m) :
      d \in {NoFile, yaml_dump(get_default_theme_config)},
      m \in {NoFile} \cup {yaml_dump(x) : x \in StoredDocs} }

\* other files a themes directory may hold
notes_txt == <<"n", "o", "t", "e", "s", ".", "t", "x", "t">>
default_yaml_bak == <<"d", "e", "f", "a", "u", "l", "t", ".", "y", "a", "m", "l",
                      ".", "b", "a", "k">>
InitialOthers == {{}, {notes_txt, default_yaml_bak}}

\* the themes directory before the program runs: missing, or with its files
InitialDirectories ==
  {[exists |-> FALSE, themes |-> NoFiles, others |-> {}]}
    \cup {[exists |-> TRUE, themes |-> fs, others |-> rest] :
            fs \in InitialThemes, rest \in InitialOthers}

RegistryInit ==
  \E d \in InitialDirectories, name \in ThemeNames :
    LET c == Constructed(d.themes, name)
    IN  /\ theme_name = c.theme_name
        /\ current = c.current
        /\ themes = c.themes
        /\ loaded = c.loaded
        /\ log = <<NoOp, c.entry>>
        /\ request = NoRequest
        /\ steps = <<>>
        /\ err = "none"
        /\ nops = 0
        /\ dir_exists = TRUE
        /\ others = d.others
        /\ autogen = NoFiles
        /\ before = Snapshot(d.themes, d.exists, d.others, NoFiles, NoneV)
        /\ result = Result(c.entry.op, name, c.loaded, <<>>)
        /\ saved = {n \in ThemeNames : d.themes[n] # NoFile}

\* a new ColorCatThemes(theme_name=name), as each run of main makes one
Construct(name) ==
  LET c == Constructed(themes, name)
  IN  /\ nops < MaxOps
      /\ theme_name' = c.theme_name
      /\ current' = c.current
      /\ themes' = c.themes
      /\ loaded' = c.loaded
      /\ log' = <<log[2], c.entry>>
      /\ request' = NoRequest
      /\ steps' = <<>>
      /\ err' = "none"
      /\ nops' = nops + 1
      /\ dir_exists' = TRUE
      /\ before' = Now
      /\ result' = Result(c.entry.op, name, c.loaded, <<>>)
      /\ UNCHANGED <<others, autogen, saved>>

LoadThemeConfig ==
  /\ nops < MaxOps
  /\ err = "none"
  /\ loaded' = load_theme_config(themes, theme_name)
  /\ log' = <<log[2], [op |-> "load", name |-> theme_name, doc |-> loaded']>>
  /\ nops' = nops + 1
  /\ before' = Now
  /\ result' = Result("load", theme_name, loaded', <<>>)
  /\ UNCHANGED <<theme_name, current, themes, request, steps, err>>
  /\ UNCHANGED <<dir_exists, others, autogen, saved>>

save_theme_config_file(name) ==
  /\ nops < MaxOps
  /\ err = "none"
  /\ IF name = <<>>
     THEN /\ themes' = themes
          /\ log' = <<log[2], [op |-> "save_refused", name |-> name,
                               doc |-> current]>>
          /\ UNCHANGED <<dir_exists, saved>>
     ELSE /\ themes' = [themes EXCEPT ![name] = yaml_dump(current)]
          /\ log' = <<log[2], [op |-> "save", name |-> name,
                               doc |-> current]>>
          /\ dir_exists' = TRUE
          /\ saved' = saved \cup {name}
  /\ nops' = nops + 1
  /\ before' = Now
  /\ result' = Result("save", name, NoneV, <<>>)
  /\ UNCHANGED <<theme_name, current, loaded, request, steps, err>>
  /\ UNCHANGED <<others, autogen>>

\* apply_modifications(modifications_str), where the caller wrote the edits
\* `pairs` into the string with `sep` between them
apply_modifications(pairs, sep) ==
  LET modifications_str == Join(pairs, sep)
      tr == run_modifications(current, shlex_split(modifications_str))
  IN  /\ err = "none"
      /\ steps' = tr
      /\ request' = [pairs |-> pairs, sep |-> sep]
      /\ current' = IF tr = <<>> THEN current ELSE tr[Len(tr)].after
      /\ err' = IF tr = <<>> THEN "none" ELSE tr[Len(tr)].err
      /\ log' = <<log[2], [op |-> "modify", name |-> <<>>, doc |-> current']>>
      /\ before' = Now
      /\ result' = Result("modify", <<>>, NoneV, <<>>)
      /\ UNCHANGED <<theme_name, themes, loaded>>
      /\ UNCHANGED <<dir_exists, others, autogen, saved>>

\* edits used on the registry: values that YAML could read as another type
RegistryEdits ==
  { config_settings \o <<".">> \o theme_name_key \o <<"=", "1", "2">>,
    color_settings \o <<".">> \o comma \o <<".">> \o chars
      \o <<"=", "o", "n", ",", "7">>,
    color_settings \o <<".">> \o comma \o <<".">> \o fg_color
      \o <<"=", "n", "u", "l", "l">> }

ModifyTheme ==
  /\ nops < MaxOps
  /\ \E e \in RegistryEdits : apply_modifications(<<e>>, " ")
  /\ nops' = nops + 1

\* ------------------------------------------- the registry's directories
\* the longest run of calls on the registry and its directories
MaxCalls == 2

yaml_ext == <<".", "y", "a", "m", "l">>

EndsWith(s, suffix) ==
  /\ Len(s) >= Len(suffix)
  /\ SubSeq(s, Len(s) - Len(suffix) + 1, Len(s)) = suffix

\* Path.stem: the name up to its last dot, a leading or trailing dot apart
stem(file_name) ==
  LET dots == {i \in 2..(Len(file_name) - 1) : file_name[i] = "."}
  IN  IF dots = {} THEN file_name
      ELSE SubSeq(file_name, 1,
                  (CHOOSE i \in dots : \A j \in dots : j <= i) - 1)

\* the names of the files in the themes directory
entries(fs, rest) ==
  {name \o yaml_ext : name \in {n \in ThemeNames : fs[n] # NoFile}} \cup rest

\* a mutant of glob_yaml: every file of the directory
glob_every_file(names) == names

\* themes_dir_path.glob('*.yaml')
glob_yaml(names) == {n \in names : EndsWith(n, yaml_ext)}

\* the orders in which glob may yield a set of files
Orderings(S) ==
  {order \in [1..Cardinality(S) -> S] :
     \A i, j \in 1..Cardinality(S) : order[i] = order[j] => i = j}

\* list_themes: returns None on every path; the names go to standard output
list_themes ==
  /\ nops < MaxCalls
  /\ err = "none"
  /\ IF ~dir_exists
     THEN result' = Result("list", <<>>, NoneV, <<>>)
     ELSE \E theme_files \in Orderings(glob_yaml(entries(themes, others))) :
            result' = Result("list", <<>>, NoneV,
                        [i \in 1..Len(theme_files) |-> stem(theme_files[i])])
  /\ log' = <<log[2], [op |-> "list", name |-> <<>>, doc |-> current]>>
  /\ before' = Now
  /\ nops' = nops + 1
  /\ UNCHANGED <<theme_name, current, themes, loaded, request, steps, err,
                 dir_exists, others, autogen, saved>>

\* a mutant of unlink_if_exists: what clean_themes_directory does
unlink_every_theme(fs, name) == NoFiles

\* delete_theme: the themes directory afterwards
unlink_if_exists(fs, name) ==
  IF fs[name] # NoFile THEN [fs EXCEPT ![name] = NoFile] ELSE fs

delete_theme(name) ==
  /\ nops < MaxCalls
  /\ err = "none"
  /\ themes' = unlink_if_exists(themes, name)
  /\ result' = Result("delete", name, NoneV, <<>>)
  /\ log' = <<log[2], [op |-> "delete", name |-> name, doc |-> current]>>
  /\ before' = Now
  /\ nops' = nops + 1
  /\ UNCHANGED <<theme_name, current, loaded, request, steps, err,
                 dir_exists, others, autogen, saved>>

\* save_generated_theme_file(name, the current theme)
save_generated_theme_file(name) ==
  /\ nops < MaxCalls
  /\ err = "none"
  /\ autogen' = [autogen EXCEPT ![name] = yaml_dump(current)]
  /\ result' = Result("save_generated", name, NoneV, <<>>)
  /\ log' = <<log[2], [op |-> "save_generated", name |-> name,
                       doc |-> current]>>
  /\ before' = Now
  /\ nops' = nops + 1
  /\ UNCHANGED <<theme_name, current, themes, loaded, request, steps, err,
                 dir_exists, others, saved>>

\* the functions defined in the body of class ColorCatThemes
ColorCatThemes_attributes ==
  { "__init__", "load_theme_config", "save_theme_config_file",
    "apply_modifications", "show_theme_config", "apply_color",
    "get_default_theme_config", "get_colorcat_root_dir",
    "create_default_theme_config_file", "escape_unintended_sequences",
    "apply_theme", "print_colorcat", "validate_theme_config",
    "check_structure", "delete_theme", "list_themes",
    "save_generated_theme_file", "generate_theme", "clean_themes_directory",
    "offset_color", "meow", "print_color_block", "draw_ascii_color_grid" }

\* generate_theme(name, the current theme, offsets): the lookup of
\* self.apply_offsets_to_config fails, that function being local to
\* offset_color, so the call of save_generated_theme_file is not reached
generate_theme(name) ==
  /\ nops < MaxCalls
  /\ err = "none"
  /\ "apply_offsets_to_config" \notin ColorCatThemes_attributes
  /\ err' = "AttributeError"
  /\ result' = Result("generate", name, NoneV, <<>>)
  /\ log' = <<log[2], [op |-> "generate", name |-> name, doc |-> current]>>
  /\ before' = Now
  /\ nops' = nops + 1
  /\ UNCHANGED <<theme_name, current, themes, loaded, request, steps,
                 dir_exists, others, autogen, saved>>

\* validate_theme_config(name): the document if it has the required
\* structure, None otherwise; the keys found missing or mistyped are printed
validate_theme_config(name) ==
  /\ nops < MaxCalls
  /\ err = "none"
  /\ IF themes[name] = NoFile
     THEN /\ result' = Result("validate", name, NoneV, <<>>)
          /\ err' = err
     ELSE LET config_read == yaml_safe_load(themes[name])
              found == check_structure(config_read, required_structure, <<>>)
          IN  IF config_read.t # "dict"
              THEN /\ result' = Result("validate", name, NoneV, <<>>)
                   /\ err' = "AttributeError"
              ELSE /\ result' =
                        Result("validate", name,
                          IF found.missing = <<>> /\ found.incorrect_type = <<>>
                          THEN config_read ELSE NoneV,
                          found.missing \o found.incorrect_type)
                   /\ err' = err
  /\ log' = <<log[2], [op |-> "validate", name |-> name, doc |-> current]>>
  /\ before' = Now
  /\ nops' = nops + 1
  /\ UNCHANGED <<theme_name, current, themes, loaded, request, steps,
                 dir_exists, others, autogen, saved>>

\* the themes directory is removed from outside the program
ThemesDirectoryRemoved ==
  /\ nops < MaxCalls
  /\ dir_exists
  /\ themes' = NoFiles
  /\ others' = {}
  /\ dir_exists' = FALSE
  /\ result' = Result("removed", <<>>, NoneV, <<>>)
  /\ log' = <<log[2], [op |-> "removed", name |-> <<>>, doc |-> current]>>
  /\ before' = Now
  /\ nops' = nops + 1
  /\ UNCHANGED <<theme_name, current, loaded, request, steps, err, autogen,
                 saved>>

\* --------------------------------- claims on the registry's directories
\* the theme names that have a file in fs
Present(fs) == {n \in ThemeNames : fs[n] # NoFile}

\* the names the last operation printed
Listed == {result.listed[i] : i \in 1..Len(result.listed)}

\* the files of the three places an operation may write to
SameFiles ==
  /\ themes = before.themes
  /\ others = before.others
  /\ autogen = before.autogen

\* C11, as first stated: list_themes returns exactly the names of the theme
\* files in the themes directory, and the empty set when there is no directory.
C11_ReturnsThemeNames ==
  result.op = "list"
    => /\ err = "none"
       /\ result.returned.t = "list"
       /\ {result.returned.v[i] : i \in 1..Len(result.returned.v)}
            = {StrV(n) : n \in Present(before.themes)}

\* C11, amended: list_themes prints exactly the names of the theme files in
\* the themes directory, each once, and none when there is no directory; it
\* returns None, raises nothing and changes nothing.
C11_PrintsThemeNames ==
  result.op = "list"
    => /\ err = "none"
       /\ result.returned = NoneV
       /\ Listed = Present(before.themes)
       /\ Len(result.listed) = Cardinality(Listed)
       /\ ~before.dir_exists => result.listed = <<>>
       /\ Now = before

\* two theme files listed from a directory that holds other files too
C11_Witness ==
  /\ result.op = "list"
  /\ Listed = {default, mytheme}
  /\ before.others = {notes_txt, default_yaml_bak}
  /\ result.returned = NoneV

\* C12: delete_theme of a name that has no theme file raises nothing and
\* leaves the themes directory, the autogen-themes directory and the current
\* theme as they were.
C12_DeleteAbsentIsNoOp ==
  (result.op = "delete" /\ before.themes[result.name] = NoFile)
    => err = "none" /\ Now = before

\* mytheme deleted when only default has a file, with a generated theme and
\* other files around
C12_Witness ==
  /\ result.op = "delete"
  /\ result.name = mytheme
  /\ before.themes[mytheme] = NoFile
  /\ themes[default] # NoFile
  /\ autogen[mytheme] # NoFile
  /\ others # {}
  /\ Now = before

\* C13: loading a theme name that has no theme file returns the built-in
\* default document, raises nothing and creates no file.
C13_LoadAbsentGivesDefault ==
  (result.op = "load" /\ before.themes[result.name] = NoFile)
    => /\ err = "none"
       /\ result.returned = get_default_theme_config
       /\ loaded = get_default_theme_config
       /\ SameFiles

\* the default theme loaded after its file was deleted
C13_Witness ==
  /\ log[1].op = "delete"
  /\ result.op = "load"
  /\ result.name = default
  /\ before.themes[default] = NoFile
  /\ themes[default] = NoFile
  /\ result.returned = get_default_theme_config

\* C14, as first stated: a file for 'default' is in the themes directory only
\* if it was there before the program ran or 'default' was saved since.
C14_DefaultPersistedOnlyBySave ==
  themes[default] # NoFile => default \in saved

\* C14, amended: a file for 'default' comes to be only by a save of the name
\* 'default' or by constructing the registry with theme 'default', which
\* writes the built-in default document when there is no default file.
C14_DefaultPersistedBySaveOrConstruction ==
  (before.themes[default] = NoFile /\ themes[default] # NoFile)
    => \/ result.op = "save" /\ result.name = default
       \/ /\ result.op = "construct"
          /\ themes[default] = yaml_dump(get_default_theme_config)

\* the registry constructed with theme 'default' after the file was deleted
C14_Witness ==
  /\ log[1].op = "delete"
  /\ result.op = "construct"
  /\ before.themes[default] = NoFile
  /\ themes[default] = yaml_dump(get_default_theme_config)

\* C15: generate_theme raises nothing and writes exactly one file, of the
\* given name in the autogen-themes directory, leaving the themes directory
\* as it was.
C15_GenerateWritesOneFile ==
  result.op = "generate"
    => /\ err = "none"
       /\ autogen[result.name] # NoFile
       /\ \A n \in ThemeNames \ {result.name} : autogen[n] = before.autogen[n]
       /\ themes = before.themes
       /\ others = before.others

\* C16: when validate_theme_config finds a missing key or a mistyped value
\* in a theme file, afterwards the themes directory holds a backup it did not
\* hold before, the theme file holds the built-in default document, and
\* nothing was raised.
C16_FailedValidationBacksUp ==
  ( /\ result.op = "validate"
    /\ before.themes[result.name] # NoFile
    /\ result.listed # <<>> )
    => /\ err = "none"
       /\ others \ before.others # {}
       /\ themes[result.name] = yaml_dump(get_default_theme_config)

\* C1: saving the current theme under a non-empty name n and then loading
\* theme n returns a document equal to the one that was saved.
C1_SaveLoadRoundTrip ==
  (log[1].op = "save" /\ log[2].op = "load" /\ log[1].name = log[2].name)
    => loaded = log[1].doc

\* a save followed by a load of the same name, of a document holding strings
\* that a YAML reader could take for an integer, a boolean or a null
C1_Witness ==
  /\ log[1].op = "save" /\ log[2].op = "load" /\ log[1].name = log[2].name
  /\ loaded = log[1].doc
  /\ log[1].name = default
  /\ get_at(loaded, <<config_settings, theme_name_key>>) = StrV(<<"1", "2">>)

\* ------------------------------------------------- the modifier on its own
\* One run of main with --modify-theme: the registry as constructed, then one
\* call of apply_modifications.
Edit(path, value) == Join(path, ".") \o <<"=">> \o value
nosuch == <<"n", "o", "s", "u", "c", "h">>

ModifierEdits ==
  { Edit(<<config_settings, theme_name_key>>, <<"x">>),
    Edit(<<color_settings, comma, chars>>, <<"a", ",", "b">>),
    Edit(<<color_settings, comma, fg_color>>, <<>>),
    Edit(<<offset_settings, default_fg_offset>>, <<"5">>),
    Edit(<<config_settings, line_numbering>>, <<"x">>),
    Edit(<<color_settings, comma>>, <<"x">>),
    Edit(<<config_settings, nosuch, theme_name_key>>, <<"x">>),
    Edit(<<nosuch, theme_name_key>>, <<"x">>),
    Edit(<<config_settings, nosuch>>, <<"x">>),
    Edit(<<config_settings, theme_name_key, <<"d">>, <<"e">>>>, <<"x">>),
    Edit(<<offset_settings, default_fg_offset, nosuch, <<"x">>>>, <<"1">>),
    Join(<<config_settings, theme_name_key>>, ".") }

Batches == UNION {[1..n -> ModifierEdits] : n \in 1..MaxEdits}

ModifyThemeArgument ==
  /\ nops = 0
  /\ \E pairs \in Batches, sep \in {" ", ","} : apply_modifications(pairs, sep)
  /\ nops' = nops + 1


\* what an edit says, read off its text alone
WellFormed(m) == Len(Split(m, "=")) = 2
PathOf(m) == Split(Split(m, "=")[1], ".")
ValueOf(m) == Split(m, "=")[2]

RECURSIVE HasPath(_, _)
HasPath(doc, path) ==
  \/ path = <<>>
  \/ /\ doc.t = "dict"
     /\ Head(path) \in DOMAIN doc.v
     /\ HasPath(doc.v[Head(path)], Tail(path))

Resolves(doc, m) == WellFormed(m) /\ HasPath(doc, PathOf(m))

\* some intermediate segment of the path is not a key of the mapping that
\* the segments before it lead to
MissingIntermediate(doc, m) ==
  /\ WellFormed(m)
  /\ \E j \in 1..(Len(PathOf(m)) - 1) :
       /\ HasPath(doc, SubSeq(PathOf(m), 1, j - 1))
       /\ get_at(doc, SubSeq(PathOf(m), 1, j - 1)).t = "dict"
       /\ PathOf(m)[j] \notin DOMAIN get_at(doc, SubSeq(PathOf(m), 1, j - 1)).v

\* C8: an edit whose path has an intermediate segment that is not in the
\* document leaves the document unchanged and raises no error, so that the
\* loop goes on to the remaining edits.
C8_MissingIntermediateSkipped ==
  \A i \in 1..Len(steps) :
    MissingIntermediate(steps[i].before, steps[i].modification)
      => steps[i].after = steps[i].before /\ steps[i].err = "none"

\* C9: an edit whose path resolves to a leaf replaces a string by the new
\* value, a list by the new value split on commas, and leaves a leaf of any
\* other type unchanged; nothing else in the document changes.
C9_LeafReplacedByType ==
  \A i \in 1..Len(steps) :
    LET s == steps[i]
        old == get_at(s.before, PathOf(s.modification))
        pieces == Split(ValueOf(s.modification), ",")
        new == CASE old.t = "str" -> StrV(ValueOf(s.modification))
                 [] old.t = "list" ->
                      ListV([j \in 1..Len(pieces) |-> StrV(pieces[j])])
                 [] OTHER -> old
    IN  Resolves(s.before, s.modification)
          => /\ s.err = "none"
             /\ s.after = set_at(s.before, PathOf(s.modification), new)

\* a batch whose edits reached a list leaf with a value holding a comma, a
\* string leaf, and leaves of an integer, a boolean and a mapping
C9_Witness ==
  /\ C9_LeafReplacedByType
  /\ \E i \in 1..Len(steps) :
       /\ Resolves(steps[i].before, steps[i].modification)
       /\ get_at(steps[i].before, PathOf(steps[i].modification)).t = "list"
       /\ Len(get_at(steps[i].after, PathOf(steps[i].modification)).v) = 2
  /\ \E i \in 1..Len(steps) :
       /\ Resolves(steps[i].before, steps[i].modification)
       /\ get_at(steps[i].before, PathOf(steps[i].modification)).t
            \in {"int", "bool", "dict"}
       /\ steps[i].after = steps[i].before

\* C10: an argument holding several key=value pairs separated by commas is
\* applied as one edit for each pair, without raising.
C10_CommaSeparatedPairs ==
  ( /\ request.sep = ","
    /\ Len(request.pairs) >= 2
    /\ \A i \in 1..Len(request.pairs) :
         /\ Resolves(steps[1].before, request.pairs[i])
         /\ "," \notin {ValueOf(request.pairs[i])[j] :
                          j \in 1..Len(ValueOf(request.pairs[i]))} )
    => /\ err = "none"
       /\ Len(steps) = Len(request.pairs)
       /\ \A i \in 1..Len(steps) : steps[i].modification = request.pairs[i]

\* ------------------------------------------------------------ offset engine
\* Memory is a sequence of dicts, an object's identity being its index; a
\* dict is the sequence of its items in insertion order, and a value held in
\* a dict is an integer or a reference to another object.
Ref(id) == [t |-> "ref", v |-> id]
Item(key, val) == [key |-> key, val |-> val]

meow_colors == <<"m", "e", "o", "w", "_", "c", "o", "l", "o", "r", "s">>
fg == <<"f", "g">>
bg == <<"b", "g">>

Min(S) == CHOOSE x \in S : \A y \in S : x <= y

dict_has(d, key) == \E i \in 1..Len(d) : d[i].key = key
dict_at(d, key) == d[CHOOSE i \in 1..Len(d) : d[i].key = key].val
dict_put(d, key, val) ==
  IF dict_has(d, key)
  THEN [i \in 1..Len(d) |-> IF d[i].key = key THEN Item(key, val) ELSE d[i]]
  ELSE Append(d, Item(key, val))

\* defaultdict(lambda: {'fg': 0, 'bg': 0}): the dict as offsets[key] leaves it
default_factory == fg :> 0 @@ bg :> 0
getitem(offsets, key) ==
  IF key \in DOMAIN offsets THEN offsets ELSE offsets @@ (key :> default_factory)

max_value == 255
wrap_color_value(value, offset) == (value + offset) % max_value

\* re.IGNORECASE, on the letters the pattern names
Lower(c) == IF c = "A" THEN "a" ELSE IF c = "L" THEN "l" ELSE c

\* the number of characters of s from position i on that lie in set
RunLen(s, i, set) ==
  LET stops == {j \in i..Len(s) : s[j] \notin set}
  IN  IF stops = {} THEN Len(s) + 1 - i ELSE Min(stops) - i

\* the alternative `all` of the first group matches at i
MatchesAll(s, i) ==
  /\ i + 2 <= Len(s)
  /\ <<Lower(s[i]), Lower(s[i + 1]), Lower(s[i + 2])>> = all

\* (all|\w+)\s*(\d+)?,?\s*(\d+)? matched at i, where a word character stands:
\* every later part may match nothing, so the first choice of each part stays.
\* A group that did not take part is the empty text.
wip_match(s, i) ==
  LET p1 == i + (IF MatchesAll(s, i) THEN 3 ELSE RunLen(s, i, WordChars))
      p2 == p1 + RunLen(s, p1, Whitespace)
      p3 == p2 + RunLen(s, p2, Digits)
      p4 == IF p3 <= Len(s) /\ s[p3] = "," THEN p3 + 1 ELSE p3
      p5 == p4 + RunLen(s, p4, Whitespace)
      p6 == p5 + RunLen(s, p5, Digits)
  IN  [key |-> SubSeq(s, i, p1 - 1), fg_offset |-> SubSeq(s, p2, p3 - 1),
       bg_offset |-> SubSeq(s, p5, p6 - 1), end |-> p6]

RECURSIVE wip_finditer(_, _)
wip_finditer(s, pos) ==
  LET starts == {i \in pos..Len(s) : s[i] \in WordChars}
  IN  IF starts = {} THEN <<>>
      ELSE <<wip_match(s, Min(starts))>>
             \o wip_finditer(s, wip_match(s, Min(starts)).end)

\* the loop of parse_offset_args in colorcat-config-wip.py
RECURSIVE wip_parse_offset_args(_, _)
wip_parse_offset_args(matches, offsets) ==
  IF matches = <<>> THEN offsets
  ELSE
  LET m == Head(matches)
      o1 == IF m.fg_offset # <<>>
            THEN [getitem(offsets, m.key) EXCEPT
                    ![m.key][fg] = ParseDigits(m.fg_offset)]
            ELSE offsets
      o2 == IF m.bg_offset # <<>>
            THEN [getitem(o1, m.key) EXCEPT
                    ![m.key][bg] = ParseDigits(m.bg_offset)]
            ELSE o1
  IN  wip_parse_offset_args(Tail(matches), o2)

\* (\d+),(\d+) matched at p: the first run of digits whole, since a shorter
\* one is followed by a digit and not by the comma
cat_tail(s, p) ==
  LET q == p + RunLen(s, p, Digits)
      r == q + 1 + RunLen(s, q + 1, Digits)
  IN  IF q > p /\ q <= Len(s) /\ s[q] = "," /\ r > q + 1
      THEN [ok |-> TRUE, fg_offset |-> SubSeq(s, p, q - 1),
            bg_offset |-> SubSeq(s, q + 1, r - 1), end |-> r]
      ELSE [ok |-> FALSE, fg_offset |-> <<>>, bg_offset |-> <<>>, end |-> p]

\* the lengths the first group tries at i, in the order it tries them: `all`,
\* then \w+ from its longest run down
cat_key_lengths(s, i) ==
  (IF MatchesAll(s, i) THEN <<3>> ELSE <<>>)
    \o [k \in 1..RunLen(s, i, WordChars) |->
          RunLen(s, i, WordChars) + 1 - k]

NoMatch == [key |-> <<>>, fg_offset |-> <<>>, bg_offset |-> <<>>, end |-> 0]

\* (all|\w+)(\d+),(\d+) matched at i
cat_match(s, i) ==
  LET lens == cat_key_lengths(s, i)
      good == {k \in 1..Len(lens) : cat_tail(s, i + lens[k]).ok}
  IN  IF good = {} THEN NoMatch
      ELSE LET t == cat_tail(s, i + lens[Min(good)])
           IN  [key |-> SubSeq(s, i, i + lens[Min(good)] - 1),
                fg_offset |-> t.fg_offset, bg_offset |-> t.bg_offset,
                end |-> t.end]

RECURSIVE cat_finditer(_, _)
cat_finditer(s, pos) ==
  LET starts == {i \in pos..Len(s) : cat_match(s, i) # NoMatch}
  IN  IF starts = {} THEN <<>>
      ELSE <<cat_match(s, Min(starts))>>
             \o cat_finditer(s, cat_match(s, Min(starts)).end)

\* the loop of parse_offset_args in colorcat.py
RECURSIVE cat_parse_offset_args(_, _)
cat_parse_offset_args(matches, offsets) ==
  IF matches = <<>> THEN offsets
  ELSE
  LET m == Head(matches)
      entry == fg :> ParseDigits(m.fg_offset) @@ bg :> ParseDigits(m.bg_offset)
  IN  cat_parse_offset_args(Tail(matches),
        [k \in DOMAIN offsets \cup {m.key} |->
           IF k = m.key THEN entry ELSE offsets[k]])

\* a mutant of offsets_get: the deltas of `all` whenever there are any
offsets_get_all_first(offsets, category) == getitem(offsets, all)[all]

\* offsets.get(category, offsets['all']): the default argument is evaluated
\* before the lookup, so the dict is the one offsets['all'] leaves
offsets_get(offsets, category) ==
  IF category \in DOMAIN getitem(offsets, all)
  THEN getitem(offsets, all)[category]
  ELSE getitem(offsets, all)[all]

\* The loops of apply_offsets_to_config run over the items that are left, on
\* st: memory, the offsets dict, the deltas each category was given, and the
\* exception raised.
RECURSIVE wip_apply_offsets_to_config(_, _)
wip_apply_offsets_to_config(items, st) ==
  IF items = <<>> THEN st
  ELSE
  LET category == Head(items).key
      id == Head(items).val.v
  IN  IF category \in DOMAIN st.offsets \/ all \in DOMAIN st.offsets
      THEN
        LET fg_offset == offsets_get(st.offsets, category)[fg]
            bg_offset == offsets_get(st.offsets, category)[bg]
            color_codes == st.heap[id]
            c1 == IF dict_has(color_codes, fg)
                  THEN dict_put(color_codes, fg,
                         IntV(wrap_color_value(dict_at(color_codes, fg).v,
                                               fg_offset)))
                  ELSE color_codes
            c2 == IF dict_has(c1, bg)
                  THEN dict_put(c1, bg,
                         IntV(wrap_color_value(dict_at(c1, bg).v, bg_offset)))
                  ELSE c1
        IN  wip_apply_offsets_to_config(Tail(items),
              [heap |-> [st.heap EXCEPT ![id] = c2],
               offsets |-> getitem(st.offsets, all),
               applied |-> st.applied
                             @@ (category :> (fg :> fg_offset @@ bg :> bg_offset)),
               err |-> "none"])
      ELSE wip_apply_offsets_to_config(Tail(items), st)

RECURSIVE cat_apply_offsets_to_config(_, _)
cat_apply_offsets_to_config(items, st) ==
  IF items = <<>> THEN st
  ELSE
  LET key == Head(items).key
      id == Head(items).val.v
  IN  IF key \in DOMAIN st.offsets \/ all \in DOMAIN st.offsets
      THEN
        LET fg_offset == offsets_get(st.offsets, key)[fg]
            bg_offset == offsets_get(st.offsets, key)[bg]
            value == st.heap[id]
            st1 == [st EXCEPT !.offsets = getitem(st.offsets, all),
                              !.applied = st.applied
                                @@ (key :> (fg :> fg_offset @@ bg :> bg_offset))]
            v1 == dict_put(value, fg,
                    IntV(wrap_color_value(dict_at(value, fg).v, fg_offset)))
            v2 == dict_put(v1, bg,
                    IntV(wrap_color_value(dict_at(v1, bg).v, bg_offset)))
        IN  IF ~dict_has(value, fg)
            THEN [st1 EXCEPT !.err = "KeyError"]
            ELSE IF ~dict_has(value, bg)
            THEN [st1 EXCEPT !.heap[id] = v1, !.err = "KeyError"]
            ELSE cat_apply_offsets_to_config(Tail(items),
                   [st1 EXCEPT !.heap[id] = v2])
      ELSE cat_apply_offsets_to_config(Tail(items), st)

VARIABLES
  offset_args,     \* the offset spec handed to offset_color
  tokens,          \* the tokens the caller wrote offset_args from
  heap,            \* memory
  heap_before,     \* memory as it was when offset_color was called
  called,          \* which offset_color ran: "none", "wip" or "cat"
  caller_config,   \* the object the caller passed as config
  updated_config,  \* the object offset_color returned
  parsed,          \* what parse_offset_args returned
  offsets,         \* the offsets dict when offset_color returned
  applied,         \* the deltas the loop used, by category
  offset_err       \* the exception offset_color raised

offVars == <<offset_args, tokens, heap, heap_before, called, caller_config,
             updated_config, parsed, offsets, applied, offset_err>>

\* the longest offset spec, in tokens
MaxTokens == 2

Separators == {<<" ">>, <<>>}
Categories == {comma, colon}
FirstTokens ==
  [category : Categories \cup {all}, fg : {1, 5, 0 - 5, 300}, bg : {0, 1},
   sep : Separators]
MoreTokens ==
  [category : Categories \cup {all}, fg : {2}, bg : {3}, sep : Separators]

\* <category><sep><fg-delta>,<bg-delta>
TokenText(t) == t.category \o t.sep \o IntText(t.fg) \o <<",">> \o IntText(t.bg)

\* specs of n tokens, no two for one category
RECURSIVE SpecsOfLen(_)
SpecsOfLen(n) ==
  IF n = 1 THEN {<<t>> : t \in FirstTokens}
  ELSE UNION { {Append(ts, t) :
                  t \in {u \in MoreTokens :
                           \A i \in 1..Len(ts) : ts[i].category # u.category}} :
               ts \in SpecsOfLen(n - 1) }

OffsetSpecs == UNION {SpecsOfLen(n) : n \in 1..MaxTokens}

Cell(f, b) == <<Item(fg, IntV(f)), Item(bg, IntV(b))>>

\* object 1 is the document colorcat-config-wip.py takes, object 2 its colour
\* table, which is the document colorcat.py takes, objects 3 and 4 the
\* entries of comma and colon
OffsetHeaps ==
  { << <<Item(meow_colors, Ref(2))>>, table, Cell(f1, b1), Cell(f2, b2) >> :
      table \in { <<Item(comma, Ref(3)), Item(colon, Ref(4))>>,
                  <<Item(colon, Ref(4)), Item(comma, Ref(3))>> },
      f1 \in {0, 250, 255}, b1 \in {0, 255},
      f2 \in {254, 255}, b2 \in {0, 255} }

OffsetIdle ==
  /\ offset_args = <<>>
  /\ tokens = <<>>
  /\ heap = <<>>
  /\ heap_before = <<>>
  /\ called = "none"
  /\ caller_config = 0
  /\ updated_config = 0
  /\ parsed = <<>>
  /\ offsets = <<>>
  /\ applied = <<>>
  /\ offset_err = "none"

OffsetInit ==
  /\ tokens \in OffsetSpecs
  /\ offset_args = Join([i \in 1..Len(tokens) |-> TokenText(tokens[i])], " ")
  /\ heap \in OffsetHeaps
  /\ heap_before = heap
  /\ called = "none"
  /\ caller_config = 0
  /\ updated_config = 0
  /\ parsed = <<>>
  /\ offsets = <<>>
  /\ applied = <<>>
  /\ offset_err = "none"

\* offset_color of colorcat-config-wip.py, called with object 1
offset_color_wip ==
  LET offsets0 == wip_parse_offset_args(wip_finditer(offset_args, 1), <<>>)
      copy == Len(heap) + 1
      heap1 == Append(heap, heap[1])
      table == dict_at(heap1[copy], meow_colors).v
      st == wip_apply_offsets_to_config(heap1[table],
              [heap |-> heap1, offsets |-> offsets0, applied |-> <<>>,
               err |-> "none"])
  IN  /\ called = "none"
      /\ called' = "wip"
      /\ caller_config' = 1
      /\ updated_config' = copy
      /\ parsed' = offsets0
      /\ heap' = st.heap
      /\ offsets' = st.offsets
      /\ applied' = st.applied
      /\ offset_err' = st.err
      /\ UNCHANGED <<offset_args, tokens, heap_before>>

\* offset_color of colorcat.py, called with object 2
offset_color_cat ==
  LET offsets0 == cat_parse_offset_args(cat_finditer(offset_args, 1), <<>>)
      st == cat_apply_offsets_to_config(heap[2],
              [heap |-> heap, offsets |-> offsets0, applied |-> <<>>,
               err |-> "none"])
  IN  /\ called = "none"
      /\ called' = "cat"
      /\ caller_config' = 2
      /\ updated_config' = 2
      /\ parsed' = offsets0
      /\ heap' = st.heap
      /\ offsets' = st.offsets
      /\ applied' = st.applied
      /\ offset_err' = st.err
      /\ UNCHANGED <<offset_args, tokens, heap_before>>

\* ------------------------------------------- the viewer: lines and filters
\* (colorcat.py)  A token is a pair of a token type and a value; a stream is
\* a sequence of tokens.
NL == "\n"
Tok(ttype, value) == [ttype |-> ttype, value |-> value]

\* token types are paths below Token; `t in u` holds of u and its subtypes
Token_Text == <<"Text">>
Token_Name == <<"Name">>
token_in(ttype, parent) ==
  Len(ttype) >= Len(parent) /\ SubSeq(ttype, 1, Len(parent)) = parent

\* the outcome of a call: a returned value, or the class of the exception
Returned(v) == [raised |-> "none", v |-> v]
Raised(e, v) == [raised |-> e, v |-> v]

\* truth value of an int or None, as `x or y` and `if not x` take it
truthy(x) == x.t = "int" /\ x.v # 0

\* int(s) for a text without whitespace or underscores
int(s) ==
  LET body == IF Len(s) > 0 /\ s[1] \in {"+", "-"} THEN Tail(s) ELSE s
  IN  IF Len(body) = 0 \/ \E i \in 1..Len(body) : body[i] \notin Digits
      THEN Raised("ValueError", 0)
      ELSE Returned(IF Len(s) > 0 /\ s[1] = "-" THEN 0 - ParseDigits(body)
                    ELSE ParseDigits(body))

\* ranges that leave their end out: range(int(start), int(end))
part_lines_end_excluded(part) ==
  IF Contains(part, <<"-">>)
  THEN LET ends == Split(part, "-")
       IN  IF Len(ends) # 2 THEN Raised("ValueError", {})
           ELSE IF int(ends[1]).raised # "none" \/ int(ends[2]).raised # "none"
           THEN Raised("ValueError", {})
           ELSE Returned(int(ends[1]).v .. (int(ends[2]).v - 1))
  ELSE IF int(part).raised # "none" THEN Raised("ValueError", {})
       ELSE Returned({int(part).v})

\* one part of the comma-separated string: 'a-b' or a single number
part_lines(part) ==
  IF Contains(part, <<"-">>)
  THEN LET ends == Split(part, "-")
       IN  IF Len(ends) # 2 THEN Raised("ValueError", {})
           ELSE IF int(ends[1]).raised # "none" \/ int(ends[2]).raised # "none"
           THEN Raised("ValueError", {})
           ELSE Returned(int(ends[1]).v .. int(ends[2]).v)
  ELSE IF int(part).raised # "none" THEN Raised("ValueError", {})
       ELSE Returned({int(part).v})

parse_line_ranges(line_ranges_str) ==
  IF line_ranges_str = <<>> THEN Returned({})
  ELSE LET ranges == Split(line_ranges_str, ",")
       IN  IF \E i \in 1..Len(ranges) : part_lines(ranges[i]).raised # "none"
           THEN Raised("ValueError", {})
           ELSE Returned(UNION {part_lines(ranges[i]).v : i \in 1..Len(ranges)})

default_bg_hl_color == 232

\* f'\033[48;5;{n}m'
bg_color_code(n) == <<ESC, "[", "4", "8", ";", "5", ";">> \o IntText(n) \o <<"m">>
reset_color == <<ESC, "[", "0", "m">>

\* BackgroundHighlightFilter.__init__: the colour index the filter keeps
BackgroundHighlightFilter_bg_hl_color(bg_hl_color) ==
  IF truthy(bg_hl_color) THEN bg_hl_color ELSE IntV(default_bg_hl_color)

\* BackgroundHighlightFilter.apply_styles (no font style, no font colour)
apply_styles(self_bg_hl_color, line) ==
  (IF truthy(self_bg_hl_color) THEN bg_color_code(self_bg_hl_color.v)
   ELSE <<>>) \o line \o reset_color

\* the body of filter's outer loop for one token whose value splits into
\* lines: what it yields from piece i on
RECURSIVE filter_pieces(_, _, _, _, _, _)
filter_pieces(ttype, lines, i, line_number, lines_to_highlight, self_bg) ==
  IF i > Len(lines) THEN <<>>
  ELSE (IF line_number \in lines_to_highlight
        THEN <<Tok(ttype, apply_styles(self_bg, lines[i]))>>
               \o (IF i < Len(lines) THEN <<Tok(Token_Text, <<NL>>)>> ELSE <<>>)
        ELSE <<Tok(ttype, lines[i] \o (IF i < Len(lines) THEN <<NL>> ELSE <<>>))>>)
       \o filter_pieces(ttype, lines, i + 1,
                        IF i < Len(lines) THEN line_number + 1 ELSE line_number,
                        lines_to_highlight, self_bg)

\* a counter that goes up once for every piece, the last one included
line_number_after_every_piece(lines, line_number) == line_number + Len(lines)

\* the counter after the pieces of one value: `line_number += 1` is run for
\* every piece but the last
line_number_after(lines, line_number) == line_number + Len(lines) - 1

\* a filter that decides once per token, by the line the token starts on
filter_token_by_first_line(tok, line_number, lines_to_highlight, self_bg) ==
  [yielded |-> IF line_number \in lines_to_highlight
               THEN <<Tok(tok.ttype, apply_styles(self_bg, tok.value))>>
               ELSE <<tok>>,
   line_number |-> line_number + Len(Split(tok.value, NL)) - 1]

\* one token through the filter: the tokens yielded and the counter after it
filter_token(tok, line_number, lines_to_highlight, self_bg) ==
  LET lines == Split(tok.value, NL)
  IN  [yielded |-> filter_pieces(tok.ttype, lines, 1, line_number,
                                 lines_to_highlight, self_bg),
       line_number |-> line_number_after(lines, line_number)]

\* BackgroundHighlightFilter.filter on a whole stream, from line_number on
RECURSIVE BackgroundHighlightFilter_filter(_, _, _, _)
BackgroundHighlightFilter_filter(stream, line_number, lines_to_highlight, self_bg) ==
  IF stream = <<>> THEN <<>>
  ELSE LET r == filter_token(Head(stream), line_number, lines_to_highlight, self_bg)
       IN  r.yielded \o BackgroundHighlightFilter_filter(Tail(stream),
                           r.line_number, lines_to_highlight, self_bg)

\* ------------------------------------------------ the viewer: other filters
\* SpecificHighlightFilter.meow_colors: the 256-colour index of each name
SpecificHighlightFilter_meow_colors ==
  [escape_sequence |-> 93, curly_braces |-> 1, parens |-> 163,
   bracket_square |-> 202, pacman_greaterthan_lessthan |-> 201,
   single_quote |-> 11, double_quote |-> 51, smart_quote |-> 84,
   curly_quote |-> 86, right_single_quotation_mark |-> 123,
   double_low_9_quotation_mark |-> 121, multi_line_comment |-> 32,
   single_line_comment |-> 36, backtick |-> 47, comma |-> 112, colon |-> 172,
   semicolon |-> 79, period |-> 184, ellipsis |-> 186, exclamation |-> 155,
   question |-> 87, strings |-> 81, function_names |-> 189,
   conditionals |-> 209, builtin_functions |-> 181, numbers |-> 11,
   operators |-> 207, punctuation |-> 87, variables |-> 203]

\* f'\033[38;5;{n}m'
fg_color_code(n) == <<ESC, "[", "3", "8", ";", "5", ";">> \o IntText(n) \o <<"m">>

\* the branches of SpecificHighlightFilter.filter that test the value, in
\* order: the string the value is looked for in, and the colour's name.
\* The backslash, the double quote, the grave accent and the characters
\* outside ASCII are written by their names.
value_branches ==
  << <<<<"[", "]">>, "bracket_square">>,
     <<<<"{", "}">>, "curly_braces">>,
     <<<<"(", ")">>, "parens">>,
     <<<<"<", ">">>, "pacman_greaterthan_lessthan">>,
     <<<<"backslash">>, "escape_sequence">>,
     <<<<"'">>, "single_quote">>,
     <<<<"dquote">>, "double_quote">>,
     <<<<"grave">>, "backtick">>,
     <<<<"ldquo", "rdquo">>, "curly_quote">>,
     <<<<"rsquo">>, "right_single_quotation_mark">>,
     <<<<"bdquo">>, "double_low_9_quotation_mark">>,
     <<<<",">>, "comma">>,
     <<<<":">>, "colon">>,
     <<<<";">>, "semicolon">>,
     <<<<".">>, "period">>,
     <<<<"hellip">>, "ellipsis">>,
     <<<<"!">>, "exclamation">>,
     <<<<"?">>, "question">> >>

\* the branches that test the token type, in order: the type tested (and
\* yielded), and the colour's name
ttype_branches ==
  << <<<<"Comment", "Multiline">>, "multi_line_comment">>,
     <<<<"Comment", "Single">>, "single_line_comment">>,
     <<<<"Literal", "String">>, "strings">>,
     <<<<"Literal", "String", "Single">>, "strings">>,
     <<<<"Name", "Function">>, "function_names">>,
     <<<<"Keyword">>, "conditionals">>,
     <<<<"Name", "Builtin">>, "builtin_functions">>,
     <<<<"Literal", "Number">>, "numbers">>,
     <<<<"Operator">>, "operators">>,
     <<<<"Name">>, "variables">>,
     <<<<"Generic", "Subheading">>, "light_grey">> >>

\* meow_colors[name] + value + reset_color, or KeyError
colored(ttype, name, value) ==
  IF name \in DOMAIN SpecificHighlightFilter_meow_colors
  THEN Returned(Tok(ttype,
         fg_color_code(SpecificHighlightFilter_meow_colors[name])
           \o value \o reset_color))
  ELSE Raised("KeyError", Tok(ttype, value))

\* one token through SpecificHighlightFilter.filter
SpecificHighlightFilter_token(tok) ==
  IF \E b \in 1..Len(value_branches) : Contains(value_branches[b][1], tok.value)
  THEN LET b == CHOOSE b \in 1..Len(value_branches) :
                  /\ Contains(value_branches[b][1], tok.value)
                  /\ \A c \in 1..(b - 1) :
                       ~Contains(value_branches[c][1], tok.value)
       IN  colored(Token_Text, value_branches[b][2], tok.value)
  ELSE IF \E b \in 1..Len(ttype_branches) :
            token_in(tok.ttype, ttype_branches[b][1])
  THEN LET b == CHOOSE b \in 1..Len(ttype_branches) :
                  /\ token_in(tok.ttype, ttype_branches[b][1])
                  /\ \A c \in 1..(b - 1) :
                       ~token_in(tok.ttype, ttype_branches[c][1])
       IN  colored(ttype_branches[b][1], ttype_branches[b][2], tok.value)
  ELSE Returned(tok)

\* a filter applied to a whole stream: the tokens yielded, or the exception
\* that ends the generator
SpecificHighlightFilter_filter(toks) ==
  IF \E k \in 1..Len(toks) : SpecificHighlightFilter_token(toks[k]).raised # "none"
  THEN Raised("KeyError", <<>>)
  ELSE Returned([k \in 1..Len(toks) |-> SpecificHighlightFilter_token(toks[k]).v])

\* re.compile(pattern) for the patterns of the model: a literal text, or
\* an unbalanced parenthesis
re_compile(pattern) ==
  IF \E i \in 1..Len(pattern) : pattern[i] \in {"(", ")"}
  THEN Raised("error", pattern)
  ELSE Returned(pattern)

\* RegexHighlightFilter.filter, the filter holding colour index self_bg
RegexHighlightFilter_filter(toks, pattern, self_bg) ==
  [k \in 1..Len(toks) |->
     IF Contains(toks[k].value, pattern)
     THEN Tok(toks[k].ttype,
              bg_color_code(self_bg.v) \o toks[k].value \o reset_color)
     ELSE toks[k]]

\* ------------------------------------------ the viewer: lexers and highlight
\* The highlighting library is outside the repository.  What the viewer
\* relies on is modelled here: lexer lookup, which finds a lexer or raises
\* ClassNotFound, and Lexer.get_tokens, which strips the text as the lexer's
\* options say, ends it with a newline and cuts it into tokens.
Lexer(alias, stripall) == [alias |-> alias, stripall |-> stripall]

KnownAliases == {"python", "text"}

get_lexer_by_name(alias, stripall) ==
  IF alias \in KnownAliases THEN Returned(Lexer(alias, stripall))
  ELSE Raised("ClassNotFound", Lexer("none", stripall))

guess_lexer_for_filename(filename, stripall) ==
  IF filename = "a.py" THEN Returned(Lexer("python", stripall))
  ELSE Raised("ClassNotFound", Lexer("none", stripall))

\* guess_lexer rates the text with every lexer; what it finds is the
\* library's choice
guess_lexer(guess, stripall) ==
  IF guess = "ClassNotFound" THEN Raised("ClassNotFound", Lexer("none", stripall))
  ELSE Returned(Lexer(guess, stripall))

\* the lookup detect_language_type tries
lexer_lookup(filename, language, guess) ==
  IF language # "" THEN get_lexer_by_name(language, TRUE)
  ELSE IF filename # "" THEN guess_lexer_for_filename(filename, TRUE)
  ELSE guess_lexer(guess, TRUE)

\* a detect_language_type without its except clause
detect_language_type_no_except(filename, language, guess) ==
  lexer_lookup(filename, language, guess)

detect_language_type(filename, language, guess) ==
  LET found == lexer_lookup(filename, language, guess)
  IN  IF found.raised # "none" THEN get_lexer_by_name("text", TRUE)
      ELSE found

\* s.strip(chars)
RECURSIVE strip(_, _)
strip(s, stripped_chars) ==
  IF Len(s) > 0 /\ s[1] \in stripped_chars THEN strip(Tail(s), stripped_chars)
  ELSE IF Len(s) > 0 /\ s[Len(s)] \in stripped_chars
  THEN strip(SubSeq(s, 1, Len(s) - 1), stripped_chars)
  ELSE s

\* the text a lexer cuts into tokens (options stripall, stripnl, ensurenl)
lexer_text(lexer, text) ==
  LET stripped == IF lexer.stripall THEN strip(text, {" ", NL})
                  ELSE strip(text, {NL})
  IN  IF Len(stripped) > 0 /\ stripped[Len(stripped)] = NL THEN stripped
      ELSE stripped \o <<NL>>

\* s.splitlines() for texts whose only line break is '\n'
splitlines(s) ==
  LET pieces == Split(s, NL)
  IN  IF pieces[Len(pieces)] = <<>> THEN SubSeq(pieces, 1, Len(pieces) - 1)
      ELSE pieces

\* the ways a lexer other than the text lexer cuts a text in the model:
\* "lines" - each line a Name token followed by a Text token for its newline
\* "span"  - the whole text one string token (a multi-line literal)
\* "heading" - the first line a Generic.Subheading token, the rest Text
Lexings == {"lines", "span", "heading"}

RECURSIVE line_tokens(_)
line_tokens(lines) ==
  IF lines = <<>> THEN <<>>
  ELSE (IF Head(lines) = <<>> THEN <<>> ELSE <<Tok(Token_Name, Head(lines))>>)
       \o <<Tok(Token_Text, <<NL>>)>> \o line_tokens(Tail(lines))

get_tokens_unprocessed(lexer, text, lexing) ==
  IF lexer.alias = "text" THEN <<Tok(Token_Text, text)>>
  ELSE IF lexing = "lines" THEN line_tokens(splitlines(text))
  ELSE IF lexing = "span" THEN <<Tok(<<"Literal", "String", "Doc">>, text)>>
  ELSE LET lines == splitlines(text)
           rest == SubSeq(text, Len(lines[1]) + 2, Len(text))
       IN  <<Tok(<<"Generic", "Subheading">>, lines[1] \o <<NL>>)>>
             \o (IF rest = <<>> THEN <<>> ELSE <<Tok(Token_Text, rest)>>)

\* Lexer.get_tokens before the lexer's filters
get_tokens(lexer, text, lexing) ==
  get_tokens_unprocessed(lexer, lexer_text(lexer, text), lexing)

\* f"{index:04d}"
zero_padded(index) ==
  LET digits == NatText(index)
  IN  [k \in 1..(4 - Min({4, Len(digits)})) |-> "0"] \o digits

\* kept lines prefixed with their position among the kept lines
RECURSIVE kept_lines_renumbered(_, _, _, _)
kept_lines_renumbered(lines, index, lines_to_keep, include_line_numbers) ==
  IF index > Len(lines) THEN <<>>
  ELSE (IF index \in lines_to_keep
        THEN <<(IF include_line_numbers
                THEN zero_padded(Cardinality({j \in 1..index :
                                               j \in lines_to_keep}))
                       \o <<":", " ">>
                ELSE <<>>)
               \o lines[index]>>
        ELSE <<>>)
       \o kept_lines_renumbered(lines, index + 1, lines_to_keep,
                                include_line_numbers)

RECURSIVE kept_lines(_, _, _, _)
kept_lines(lines, index, lines_to_keep, include_line_numbers) ==
  IF index > Len(lines) THEN <<>>
  ELSE (IF index \in lines_to_keep
        THEN <<(IF include_line_numbers
                THEN zero_padded(index) \o <<":", " ">> ELSE <<>>)
               \o lines[index]>>
        ELSE <<>>)
       \o kept_lines(lines, index + 1, lines_to_keep, include_line_numbers)

\* "\n".join(pieces)
RECURSIVE join_lines(_)
join_lines(pieces) ==
  IF pieces = <<>> THEN <<>>
  ELSE IF Len(pieces) = 1 THEN pieces[1]
  ELSE pieces[1] \o <<NL>> \o join_lines(Tail(pieces))

filter_lines_by_range_with_line_numbers(input_text, line_ranges_str, include_line_numbers) ==
  LET lines_to_keep == parse_line_ranges(line_ranges_str)
  IN  IF lines_to_keep.raised # "none" THEN Raised("ValueError", <<>>)
      ELSE Returned(join_lines(kept_lines(splitlines(input_text), 1,
                                          lines_to_keep.v,
                                          include_line_numbers)))

\* `if not bg_hl_color: bg_hl_color = 232`
bg_hl_color_or_232(bg_hl_color) ==
  IF ~truthy(bg_hl_color) THEN IntV(232) ELSE bg_hl_color

\* the lexer's filters applied in the order they were added, and the stream
\* handed to the formatter, which writes every value as it is
highlight(input_text, lexer, lexing, specific, regex_pattern, regex_bg, highlighted_lines, background_bg) ==
  LET toks == get_tokens(lexer, input_text, lexing)
      first == IF specific THEN SpecificHighlightFilter_filter(toks)
               ELSE Returned(toks)
      second == IF regex_pattern # <<>>
                THEN RegexHighlightFilter_filter(first.v, regex_pattern,
                       BackgroundHighlightFilter_bg_hl_color(regex_bg))
                ELSE first.v
  IN  IF first.raised # "none" THEN Raised(first.raised, <<>>)
      ELSE IF highlighted_lines # {}
      THEN Returned(BackgroundHighlightFilter_filter(second, 1,
                      highlighted_lines,
                      BackgroundHighlightFilter_bg_hl_color(background_bg)))
      ELSE Returned(second)

highlight_with_colorcat_colors(input_text, filename, lines_to_highlight, language, output_format, bg_hl_color, regex_pattern, guess, lexing) ==
  LET highlighted_lines == parse_line_ranges(lines_to_highlight)
      detected == detect_language_type(filename, language, guess)
      lexer == IF detected.raised # "none" \/ output_format = "plain"
               THEN Lexer("text", FALSE) ELSE detected.v
      regex_bg == bg_hl_color_or_232(bg_hl_color)
      background_bg == IF regex_pattern # <<>> THEN bg_hl_color_or_232(regex_bg)
                       ELSE bg_hl_color_or_232(bg_hl_color)
  IN  IF highlighted_lines.raised # "none" THEN Raised("ValueError", <<>>)
      ELSE IF regex_pattern # <<>> /\ re_compile(regex_pattern).raised # "none"
      THEN Raised("error", <<>>)
      ELSE IF output_format = "plain" /\ highlighted_lines.v = {}
      THEN Raised("UnboundLocalError", <<>>)
      ELSE highlight(input_text, lexer, lexing, output_format # "plain",
                     regex_pattern, regex_bg, highlighted_lines.v,
                     background_bg)

\* ------------------------------------------------------ the viewer: main
\* what one run of main leaves behind: the step it got to, the exception
\* its handler caught, the lexer chosen, whether the lexer lookup failed,
\* what was written to stderr and printed, and how main ended (a return,
\* or sys.exit with a code)
Ended(stage, raised, lexer, lookup_failed, stderr, printed, sys_exit) ==
  [stage |-> stage, raised |-> raised, lexer |-> lexer,
   lookup_failed |-> lookup_failed, stderr |-> stderr, printed |-> printed,
   sys_exit |-> sys_exit]

NoLexer == Lexer("none", FALSE)
main_returns == [called |-> FALSE, code |-> NoneV]
sys_exit(code) == [called |-> TRUE, code |-> code]

\* a handler that reports the error and leaves main by a return
handler_returns(stage, raised, lexer, lookup_failed, stderr) ==
  Ended(stage, raised, lexer, lookup_failed,
        stderr \o <<"An error occurred">>, <<>>, main_returns)

\* the except clause of main
handler(stage, raised, lexer, lookup_failed, stderr) ==
  Ended(stage, raised, lexer, lookup_failed,
        stderr \o <<"An error occurred">>, <<>>, sys_exit(IntV(1)))

\* main after input_text was read and found non-empty, --meow not given
main_process(args, guess, lexing, input_text) ==
  LET background == int(args.background_color)
      bg_hl_color == IF args.background_color # <<>> THEN IntV(background.v)
                     ELSE IntV(232)
      lines_to_highlight == IF args.highlight_lines # <<>>
                            THEN parse_line_ranges(args.highlight_lines)
                            ELSE Returned({})
      found == lexer_lookup(args.filename, args.language, guess)
      failed == found.raised # "none"
      detected == detect_language_type(args.filename, args.language, guess)
      lexer == detected.v
      noted == IF failed THEN <<"Error detecting language type">> ELSE <<>>
      shown == IF args.only_show_lines # <<>>
               THEN filter_lines_by_range_with_line_numbers(input_text,
                      args.only_show_lines, args.line_numbers)
               ELSE Returned(input_text)
      highlighted_input ==
        highlight_with_colorcat_colors(shown.v, args.filename,
          args.highlight_lines, args.language, args.output, bg_hl_color,
          args.regex_pattern, guess, lexing)
  IN  IF args.background_color # <<>> /\ background.raised # "none"
      THEN handler("background_color", background.raised, NoLexer, FALSE, <<>>)
      ELSE IF lines_to_highlight.raised # "none"
      THEN handler("highlight_lines", lines_to_highlight.raised, NoLexer,
                   FALSE, <<>>)
      ELSE IF detected.raised # "none"
      THEN handler("detect_language_type", detected.raised, NoLexer, failed,
                   <<>>)
      ELSE IF shown.raised # "none"
      THEN handler("only_show_lines", shown.raised, lexer, failed, noted)
      ELSE IF highlighted_input.raised # "none"
      THEN handler("highlight", highlighted_input.raised, lexer, failed,
                   noted \o noted)
      ELSE Ended("print", "none", lexer, failed, noted \o noted,
                 highlighted_input.v, main_returns)

\* main: args as parse_known_args returns them, on a process whose stdin,
\* named file and library behave as env says
main(args, env) ==
  LET input_text == IF args.filename # "" THEN env.file.text ELSE env.stdin
  IN  IF ~env.isatty /\ args.filename # ""
      THEN Ended("pipe_and_filename", "none", NoLexer, FALSE,
                 <<"Error: Cannot provide both a filename and pipe input">>,
                 <<>>, sys_exit(IntV(1)))
      ELSE IF args.filename # "" /\ ~env.file.exists
      THEN handler("open", "FileNotFoundError", NoLexer, FALSE, <<>>)
      ELSE IF input_text = <<>>
      THEN Ended("no_input", "none", NoLexer, FALSE, <<"No input provided.">>,
                 <<>>, main_returns)
      ELSE IF args.meow
      THEN Ended("meow", "none", NoLexer, FALSE, <<>>, <<>>, main_returns)
      ELSE main_process(args, env.guess, env.lexing, input_text)

\* the status the process ends with when sys.exit(code) is called
exit_status(code) == IF code.t = "none" THEN 0 ELSE code.v

\* a command line: args as the parser returns them, or the parser's own exit
\* (-h and --help print the usage and exit with 0, a malformed command line
\* exits with 2) before main's try block is entered
DefaultArgs ==
  [filename |-> "", line_numbers |-> FALSE, highlight_lines |-> <<>>,
   language |-> "", regex_pattern |-> <<>>, output |-> "formatted",
   only_show_lines |-> <<>>, background_color |-> <<>>, meow |-> FALSE]

parse_known_args(command) ==
  IF command.parser = "help" THEN sys_exit(IntV(0))
  ELSE IF command.parser = "error" THEN sys_exit(IntV(2))
  ELSE main_returns

VARIABLES command, environ, ended, exit_code, exited

viewVars == <<command, environ, ended, exit_code, exited>>

NotEnded == Ended("none", "none", NoLexer, FALSE, <<>>, <<>>, main_returns)

Texts == {<<>>, <<"a", NL, "b">>, <<NL, "a", NL, "(", NL>>}
BackgroundColors == {<<>>, <<"0">>, <<"7">>, <<"2", "5", "5">>, <<"x">>}
LineRanges == {<<>>, <<"2">>, <<"1", "-", "2">>, <<"x">>}
Patterns == {<<>>, <<"a">>, <<"(">>}

Commands ==
  {[parser |-> p, args |-> DefaultArgs] : p \in {"help", "error"}}
  \cup
  {[parser |-> "ok",
    args |-> [filename |-> f, line_numbers |-> FALSE, highlight_lines |-> hln,
              language |-> lang, regex_pattern |-> rx, output |-> out,
              only_show_lines |-> oln, background_color |-> color,
              meow |-> meow]] :
     f \in {"", "a.py", "a.zz"}, hln \in LineRanges,
     lang \in {"", "nosuch"}, rx \in Patterns,
     out \in {"formatted", "plain"}, oln \in {<<>>, <<"2">>},
     color \in BackgroundColors, meow \in BOOLEAN}

Missing == [exists |-> FALSE, text |-> <<>>]
File(text) == [exists |-> TRUE, text |-> text]

\* the process's surroundings: what is not read is left out
Environments(cmd) ==
  IF cmd.parser # "ok"
  THEN {[isatty |-> TRUE, stdin |-> <<>>, file |-> Missing,
         guess |-> "python", lexing |-> "lines"]}
  ELSE IF cmd.args.filename = ""
  THEN {[isatty |-> tty, stdin |-> text, file |-> Missing,
         guess |-> g, lexing |-> lx] :
          tty \in BOOLEAN, text \in Texts,
          g \in {"python", "ClassNotFound"}, lx \in Lexings}
  ELSE {[isatty |-> FALSE, stdin |-> <<>>, file |-> Missing,
         guess |-> "python", lexing |-> "lines"]}
       \cup
       {[isatty |-> TRUE, stdin |-> <<>>, file |-> file,
         guess |-> "python", lexing |-> lx] :
          file \in {Missing} \cup {File(text) : text \in Texts},
          lx \in Lexings}

ViewerIdle ==
  /\ command = [parser |-> "help", args |-> DefaultArgs]
  /\ environ = [isatty |-> TRUE, stdin |-> <<>>, file |-> Missing,
                guess |-> "python", lexing |-> "lines"]
  /\ ended = NotEnded
  /\ exit_code = 0
  /\ exited = TRUE

ViewerInit ==
  /\ command \in Commands
  /\ environ \in Environments(command)
  /\ ended = NotEnded
  /\ exit_code = 0
  /\ exited = FALSE

\* the __main__ block: one run of the process to its exit
colorcat ==
  /\ ~exited
  /\ LET parsed_args == parse_known_args(command)
         run == IF parsed_args.called
                THEN Ended("parse_known_args", "none", NoLexer, FALSE, <<>>,
                           <<>>, parsed_args)
                ELSE main(command.args, environ)
     IN  /\ ended' = run
         /\ exit_code' = IF run.sys_exit.called
                         THEN exit_status(run.sys_exit.code)
                         ELSE exit_status(IntV(0))
  /\ exited' = TRUE
  /\ UNCHANGED <<command, environ>>

\* ------------------------------------- BackgroundHighlightFilter at work
\* One filter object on one token stream; the generator is advanced one
\* input token at a time.
VARIABLES stream, consumed, line_number, emitted, lines_to_highlight,
          self_bg_hl_color

fltVars == <<stream, consumed, line_number, emitted, lines_to_highlight,
             self_bg_hl_color>>

\* Longest token stream handed to the filter.
MaxStream == 3

\* token values: within a line, ending a line, spanning lines, empty
TokenValues == {<<"a">>, <<NL>>, <<"a", NL>>, <<"a", NL, "b">>, <<>>}

RECURSIVE StreamsOfLen(_)
StreamsOfLen(n) ==
  IF n = 0 THEN {<<>>}
  ELSE {<<Tok(Token_Name, v)>> \o s : v \in TokenValues, s \in StreamsOfLen(n - 1)}

Streams == UNION {StreamsOfLen(n) : n \in 0..MaxStream}

HighlightSets == SUBSET (1..3)

ColourArguments == {NoneV, IntV(0), IntV(200)}

FilterIdle ==
  /\ stream = <<>>
  /\ consumed = 0
  /\ line_number = 1
  /\ emitted = <<>>
  /\ lines_to_highlight = {}
  /\ self_bg_hl_color = IntV(default_bg_hl_color)

\* the filter as constructed, before the first token is pulled
FilterInit ==
  /\ stream \in Streams
  /\ lines_to_highlight \in HighlightSets
  /\ \E bg_hl_color \in ColourArguments :
       self_bg_hl_color = BackgroundHighlightFilter_bg_hl_color(bg_hl_color)
  /\ consumed = 0
  /\ line_number = 1
  /\ emitted = <<>>

\* one turn of `for ttype, value in stream`
FilterStep ==
  /\ consumed < Len(stream)
  /\ LET r == filter_token(stream[consumed + 1], line_number,
                           lines_to_highlight, self_bg_hl_color)
     IN  /\ emitted' = emitted \o r.yielded
         /\ line_number' = r.line_number
  /\ consumed' = consumed + 1
  /\ UNCHANGED <<stream, lines_to_highlight, self_bg_hl_color>>

\* ------------------------------------------------- line ranges at work
\* parse_line_ranges and filter_lines_by_range_with_line_numbers called on
\* one string of line ranges, one text and one include_line_numbers flag.
VARIABLES ranges_arg, text_arg, numbers_arg, parse_out, filter_out, calls_made

lineVars == <<ranges_arg, text_arg, numbers_arg, parse_out, filter_out,
              calls_made>>

\* Longest string of line ranges handed to parse_line_ranges.
MaxRangeLen == 5

RangeChars == {"1", "3", ",", "-"}

RECURSIVE RangeStringsOfLen(_)
RangeStringsOfLen(n) ==
  IF n = 0 THEN {<<>>}
  ELSE {<<c>> \o s : c \in RangeChars, s \in RangeStringsOfLen(n - 1)}

RangeStrings == UNION {RangeStringsOfLen(n) : n \in 0..MaxRangeLen}

\* texts with three lines, with an empty line, with and without a final newline
LineTexts == {<<>>, <<"a", NL, "b", NL, "c">>, <<"a", NL, NL, "b", NL>>}

NotCalled == Raised("not called", <<>>)

LinesIdle ==
  /\ ranges_arg = <<>>
  /\ text_arg = <<>>
  /\ numbers_arg = FALSE
  /\ parse_out = NotCalled
  /\ filter_out = NotCalled
  /\ calls_made = {}

LinesInit ==
  /\ ranges_arg \in RangeStrings
  /\ text_arg \in LineTexts
  /\ numbers_arg \in BOOLEAN
  /\ parse_out = NotCalled
  /\ filter_out = NotCalled
  /\ calls_made = {}

\* a call of parse_line_ranges(ranges_arg)
ParseLineRanges ==
  /\ "parse_line_ranges" \notin calls_made
  /\ parse_out' = parse_line_ranges(ranges_arg)
  /\ calls_made' = calls_made \cup {"parse_line_ranges"}
  /\ UNCHANGED <<ranges_arg, text_arg, numbers_arg, filter_out>>

\* a call of filter_lines_by_range_with_line_numbers(text_arg, ranges_arg,
\* numbers_arg)
FilterLines ==
  /\ "filter_lines" \notin calls_made
  /\ filter_out' = filter_lines_by_range_with_line_numbers(text_arg,
                     ranges_arg, numbers_arg)
  /\ calls_made' = calls_made \cup {"filter_lines"}
  /\ UNCHANGED <<ranges_arg, text_arg, numbers_arg, parse_out>>

\* ------------------------------------------------ the theme manager: main
\* One run of main of colorcat-config-wip.py on a command line that gives
\* --theme, --modify-theme and --save-theme (or leaves them out), and a
\* ColorCatThemes made afterwards.  Documents live in memory as objects, so
\* that an edit made in place shows in every holder of the same object.
VARIABLES
  cli,              \* args: theme, modify_theme, save_theme ('' where absent)
  memory,           \* the documents in memory, by object
  instance_config,  \* the object colorcat_current_theme_config is, 0 before
  disk,             \* the themes directory: theme name -> YAML file, or NoFile
  main_steps,       \* the passes of the apply_modifications loop
  main_raised,      \* the exception that ended main, or "none"
  main_stage,       \* the last statement main got to, "none" before main
  later             \* the ColorCatThemes made after main, if any

mgrVars == <<cli, memory, instance_config, disk, main_steps, main_raised,
             main_stage, later>>

\* the longest --modify-theme batch a command line holds
MaxPairs == 2

ManagerEdits ==
  { Edit(<<config_settings, theme_name_key>>, <<"x">>),
    Edit(<<color_settings, comma, chars>>, <<"a", ",", "b">>),
    Edit(<<config_settings, nosuch>>, <<"x">>),
    Edit(<<offset_settings, default_fg_offset>>, <<"5">>),
    Join(<<config_settings, theme_name_key>>, ".") }

ManagerArguments ==
  {<<>>} \cup
  UNION {{Join(pairs, sep) : pairs \in [1..n -> ManagerEdits], sep \in {" ", ","}} :
           n \in 1..MaxPairs}

ManagerCommands ==
  {[theme |-> t, modify_theme |-> mod, save_theme |-> s] :
     t \in ThemeNames, mod \in ManagerArguments, s \in ThemeNames \cup {<<>>}}

NoLater == [name |-> <<>>, config |-> 0, builtin |-> FALSE]

\* one module-level default document handed out by every call
shared_default_theme_config(mem) ==
  IF mem = <<>> THEN [memory |-> <<get_default_theme_config>>, id |-> 1]
  ELSE [memory |-> mem, id |-> 1]

\* get_default_theme_config(): the dict literal is evaluated on every call,
\* which makes a new object
new_default_theme_config(mem) ==
  [memory |-> Append(mem, get_default_theme_config), id |-> Len(mem) + 1]

\* load_theme_config() of an instance whose theme_name is name
load_theme_config_object(mem, fs, name) ==
  IF fs[name] # NoFile
  THEN [memory |-> Append(mem, yaml_safe_load(fs[name])), id |-> Len(mem) + 1]
  ELSE new_default_theme_config(mem)

\* ColorCatThemes(theme_name=name): the object its current theme is, and
\* the themes directory afterwards
ColorCatThemes(mem, fs, name) ==
  IF name # <<>> /\ name # default
  THEN [made |-> load_theme_config_object(mem, fs, name), disk |-> fs,
        builtin |-> fs[name] = NoFile]
  ELSE [made |-> new_default_theme_config(mem),
        disk |-> create_default_theme_config_file(fs), builtin |-> TRUE]

\* what validate_theme_config(name) raises
validate_theme_config_raises(fs, name) ==
  IF fs[name] # NoFile /\ yaml_safe_load(fs[name]).t # "dict"
  THEN "AttributeError" ELSE "none"

\* main from `if args.save_theme:` on; the other options are not given
main_save_theme(args, mem, id, fs, tr) ==
  [memory |-> mem, config |-> id,
   disk |-> IF args.save_theme # <<>>
            THEN [fs EXCEPT ![args.save_theme] = yaml_dump(mem[id])]
            ELSE fs,
   steps |-> tr, raised |-> "none", stage |-> "end"]

\* the end of apply_modifications: the document is edited in place, and an
\* exception of the loop is not caught and ends the process
main_modified(args, mem, id, fs, tr) ==
  IF tr = <<>> THEN main_save_theme(args, mem, id, fs, tr)
  ELSE IF tr[Len(tr)].err # "none"
  THEN [memory |-> [mem EXCEPT ![id] = tr[Len(tr)].after], config |-> id,
        disk |-> fs, steps |-> tr, raised |-> tr[Len(tr)].err,
        stage |-> "apply_modifications"]
  ELSE main_save_theme(args, [mem EXCEPT ![id] = tr[Len(tr)].after], id, fs, tr)

\* main from `if args.modify_theme:` on
main_modify_theme(args, mem, id, fs) ==
  main_modified(args, mem, id, fs,
    IF args.modify_theme # <<>>
    THEN run_modifications(mem[id], shlex_split(args.modify_theme))
    ELSE <<>>)

\* main from `if args.theme:` on, color_cat_instance made
main_validate_theme(args, instance) ==
  IF args.theme # <<>>
     /\ validate_theme_config_raises(instance.disk, args.theme) # "none"
  THEN [memory |-> instance.made.memory, config |-> instance.made.id,
        disk |-> instance.disk, steps |-> <<>>,
        raised |-> validate_theme_config_raises(instance.disk, args.theme),
        stage |-> "validate_theme_config"]
  ELSE main_modify_theme(args, instance.made.memory, instance.made.id,
                         instance.disk)

\* a main that saves the theme before it applies the modifications
main_wip_saves_first(args, mem, fs) ==
  LET saved_first == main_validate_theme(
                       [args EXCEPT !.modify_theme = <<>>],
                       ColorCatThemes(mem, fs, default))
  IN  IF saved_first.raised # "none" THEN saved_first
      ELSE main_modified([args EXCEPT !.save_theme = <<>>],
             saved_first.memory, saved_first.config, saved_first.disk,
             IF args.modify_theme # <<>>
             THEN run_modifications(saved_first.memory[saved_first.config],
                                    shlex_split(args.modify_theme))
             ELSE <<>>)

\* main, for args that give none of the other options: the instance is
\* made for theme 'default', args.theme is validated, the modifications are
\* applied in place, then the theme is saved
main_wip(args, mem, fs) ==
  main_validate_theme(args, ColorCatThemes(mem, fs, default))

ManagerIdle ==
  /\ cli = [theme |-> default, modify_theme |-> <<>>, save_theme |-> <<>>]
  /\ memory = <<>>
  /\ instance_config = 0
  /\ disk = NoFiles
  /\ main_steps = <<>>
  /\ main_raised = "none"
  /\ main_stage = "end"
  /\ later = [name |-> <<>>, config |-> 0, builtin |-> TRUE]

\* a command line, and the themes directory it finds
ManagerInit ==
  /\ cli \in ManagerCommands
  /\ disk \in InitialThemes
  /\ memory = <<>>
  /\ instance_config = 0
  /\ main_steps = <<>>
  /\ main_raised = "none"
  /\ main_stage = "none"
  /\ later = NoLater

\* the process runs main
RunMain ==
  /\ main_stage = "none"
  /\ LET run == main_wip(cli, memory, disk)
     IN  /\ memory' = run.memory
         /\ instance_config' = run.config
         /\ disk' = run.disk
         /\ main_steps' = run.steps
         /\ main_raised' = run.raised
         /\ main_stage' = run.stage
  /\ UNCHANGED <<cli, later>>

\* a ColorCatThemes made for theme `name` after main's edits, main's
\* instance still in memory
LaterColorCatThemes(name) ==
  /\ main_stage \notin {"none", "validate_theme_config"}
  /\ later = NoLater
  /\ LET instance == ColorCatThemes(memory, disk, name)
     IN  /\ memory' = instance.made.memory
         /\ disk' = instance.disk
         /\ later' = [name |-> name, config |-> instance.made.id,
                      builtin |-> instance.builtin]
  /\ UNCHANGED <<cli, instance_config, main_steps, main_raised, main_stage>>

\* ---------------------------------------------------------- specifications
vars == <<regVars, valVars, offVars, fltVars, viewVars, lineVars, mgrVars>>

RegistryIdle ==
  /\ theme_name = default
  /\ current = get_default_theme_config
  /\ themes = NoFiles
  /\ loaded = NoneV
  /\ log = <<NoOp, NoOp>>
  /\ request = NoRequest
  /\ steps = <<>>
  /\ err = "none"
  /\ nops = 0
  /\ dir_exists = TRUE
  /\ others = {}
  /\ autogen = NoFiles
  /\ before = Snapshot(NoFiles, TRUE, {}, NoFiles, NoneV)
  /\ result = Result("none", <<>>, NoneV, <<>>)
  /\ saved = {}

\* the theme manager: runs of main on one themes directory
Init == RegistryInit /\ ValidatorIdle /\ OffsetIdle /\ FilterIdle
  /\ ViewerIdle /\ LinesIdle /\ ManagerIdle

Next ==
  \/ (\E name \in ThemeNames : Construct(name))
       /\ UNCHANGED <<valVars, offVars, fltVars, viewVars, lineVars, mgrVars>>
  \/ LoadThemeConfig /\ UNCHANGED <<valVars, offVars, fltVars, viewVars, lineVars, mgrVars>>
  \/ (\E name \in ThemeNames \cup {<<>>} : save_theme_config_file(name))
       /\ UNCHANGED <<valVars, offVars, fltVars, viewVars, lineVars, mgrVars>>
  \/ ModifyTheme /\ UNCHANGED <<valVars, offVars, fltVars, viewVars, lineVars, mgrVars>>

Spec == Init /\ [][Next]_vars

\* the registry with its directories: every call a caller can make
RegistryNext ==
  \/ (\E name \in ThemeNames : Construct(name))
       /\ nops < MaxCalls /\ UNCHANGED <<valVars, offVars, fltVars, viewVars, lineVars, mgrVars>>
  \/ LoadThemeConfig /\ nops < MaxCalls /\ UNCHANGED <<valVars, offVars, fltVars, viewVars, lineVars, mgrVars>>
  \/ (\E name \in ThemeNames \cup {<<>>} : save_theme_config_file(name))
       /\ nops < MaxCalls /\ UNCHANGED <<valVars, offVars, fltVars, viewVars, lineVars, mgrVars>>
  \/ ModifyTheme /\ nops < MaxCalls /\ UNCHANGED <<valVars, offVars, fltVars, viewVars, lineVars, mgrVars>>
  \/ list_themes /\ UNCHANGED <<valVars, offVars, fltVars, viewVars, lineVars, mgrVars>>
  \/ (\E name \in ThemeNames : delete_theme(name))
       /\ UNCHANGED <<valVars, offVars, fltVars, viewVars, lineVars, mgrVars>>
  \/ (\E name \in ThemeNames : save_generated_theme_file(name))
       /\ UNCHANGED <<valVars, offVars, fltVars, viewVars, lineVars, mgrVars>>
  \/ (\E name \in ThemeNames : generate_theme(name))
       /\ UNCHANGED <<valVars, offVars, fltVars, viewVars, lineVars, mgrVars>>
  \/ (\E name \in ThemeNames : validate_theme_config(name))
       /\ UNCHANGED <<valVars, offVars, fltVars, viewVars, lineVars, mgrVars>>
  \/ ThemesDirectoryRemoved /\ UNCHANGED <<valVars, offVars, fltVars, viewVars, lineVars, mgrVars>>

SpecRegistry == Init /\ [][RegistryNext]_vars

\* one run of main with --modify-theme
ModifierNext == ModifyThemeArgument /\ UNCHANGED <<valVars, offVars, fltVars, viewVars, lineVars, mgrVars>>

ModifierInit == Init /\ others = {} /\ before.dir_exists

SpecModifier == ModifierInit /\ [][ModifierNext]_vars

\* check_structure on a document and a required structure
ValidatorSpecInit == RegistryIdle /\ ValidatorInit /\ OffsetIdle /\ FilterIdle
  /\ ViewerIdle /\ LinesIdle /\ ManagerIdle

ValidatorNext == CheckStructure /\ UNCHANGED <<regVars, offVars, fltVars, viewVars, lineVars, mgrVars>>

SpecValidator == ValidatorSpecInit /\ [][ValidatorNext]_vars

\* offset_color on an offset spec and a document
OffsetSpecInit == RegistryIdle /\ ValidatorIdle /\ OffsetInit /\ FilterIdle
  /\ ViewerIdle /\ LinesIdle /\ ManagerIdle

OffsetNext ==
  \/ offset_color_wip /\ UNCHANGED <<regVars, valVars, fltVars, viewVars, lineVars, mgrVars>>
  \/ offset_color_cat /\ UNCHANGED <<regVars, valVars, fltVars, viewVars, lineVars, mgrVars>>

SpecOffset == OffsetSpecInit /\ [][OffsetNext]_vars

\* BackgroundHighlightFilter.filter on a token stream
FilterSpecInit ==
  RegistryIdle /\ ValidatorIdle /\ OffsetIdle /\ FilterInit /\ ViewerIdle
  /\ LinesIdle /\ ManagerIdle

FilterNext == FilterStep /\ UNCHANGED <<regVars, valVars, offVars, viewVars, lineVars, mgrVars>>

SpecFilter == FilterSpecInit /\ [][FilterNext]_vars

\* runs of the viewer, one process each
ViewerSpecInit ==
  RegistryIdle /\ ValidatorIdle /\ OffsetIdle /\ FilterIdle /\ ViewerInit
  /\ LinesIdle /\ ManagerIdle

ViewerNext == colorcat /\ UNCHANGED <<regVars, valVars, offVars, fltVars, lineVars, mgrVars>>

SpecViewer == ViewerSpecInit /\ [][ViewerNext]_vars

\* the functions on line ranges, called on their own
LinesSpecInit ==
  /\ RegistryIdle /\ ValidatorIdle /\ OffsetIdle /\ FilterIdle /\ ViewerIdle
  /\ LinesInit /\ ManagerIdle

LinesNext ==
  \/ ParseLineRanges
       /\ UNCHANGED <<regVars, valVars, offVars, fltVars, viewVars, mgrVars>>
  \/ FilterLines
       /\ UNCHANGED <<regVars, valVars, offVars, fltVars, viewVars, mgrVars>>

SpecLines == LinesSpecInit /\ [][LinesNext]_vars

\* one run of the theme manager's main, and a theme loaded afterwards
ManagerSpecInit ==
  /\ RegistryIdle /\ ValidatorIdle /\ OffsetIdle /\ FilterIdle /\ ViewerIdle
  /\ LinesIdle /\ ManagerInit

ManagerNext ==
  \/ RunMain
       /\ UNCHANGED <<regVars, valVars, offVars, fltVars, viewVars, lineVars>>
  \/ (\E name \in ThemeNames : LaterColorCatThemes(name))
       /\ UNCHANGED <<regVars, valVars, offVars, fltVars, viewVars, lineVars>>

SpecManager == ManagerSpecInit /\ [][ManagerNext]_vars

\* ------------------------------------------------- claims on the validator
\* every leaf of the schema is in the document, under mappings all the way,
\* with a value of exactly the declared type
RECURSIVE LeavesPresentAndTyped(_, _)
LeavesPresentAndTyped(doc, schema) ==
  \A i \in 1..Len(schema) :
    /\ doc.t = "dict"
    /\ schema[i].key \in DOMAIN doc.v
    /\ IF schema[i].kind = "dict"
       THEN /\ doc.v[schema[i].key].t = "dict"
            /\ LeavesPresentAndTyped(doc.v[schema[i].key], schema[i].sub)
       ELSE doc.v[schema[i].key].t = schema[i].kind

\* C2: for every schema and every document, check_structure returns two
\* empty lists if and only if every leaf of the schema is present in the
\* document with a value of the declared primitive type.
C2_EmptyIffLeavesTyped ==
  checked => ( (missing = <<>> /\ incorrect_type = <<>>)
                 <=> LeavesPresentAndTyped(config, structure) )

\* --------------------------------------------- claims on the offset engine
\* the colour table of the document that object id is
ColourTable(h, id) ==
  IF dict_has(h[id], meow_colors) THEN h[dict_at(h[id], meow_colors).v]
  ELSE h[id]

\* the colour index of a channel of a category in that document
Index(h, id, category, channel) ==
  dict_at(h[dict_at(ColourTable(h, id), category).v], channel).v

Old(category, channel) == Index(heap_before, caller_config, category, channel)
New(category, channel) == Index(heap, updated_config, category, channel)

\* C3: for a spec of one token `<category> <fg>,<bg>`, whatever the old
\* indices and the deltas (negative and larger than 255 too), offset_color
\* raises nothing and leaves the category with foreground
\* (old + fg delta) mod 256 and background (old + bg delta) mod 256.
C3_WrapsMod256 ==
  \A c \in Categories :
    ( /\ called # "none"
      /\ Len(tokens) = 1
      /\ tokens[1].category = c
      /\ tokens[1].sep = <<" ">> )
      => /\ offset_err = "none"
         /\ New(c, fg) = (Old(c, fg) + tokens[1].fg) % 256
         /\ New(c, bg) = (Old(c, bg) + tokens[1].bg) % 256

\* C4: after the spec "all 1,0" every category's foreground is its old
\* foreground plus 1 mod 256 and every category's background is unchanged.
C4_AllOneZero ==
  ( /\ called # "none"
    /\ tokens = <<[category |-> all, fg |-> 1, bg |-> 0, sep |-> <<" ">>]>> )
    => \A c \in Categories :
         /\ New(c, fg) = (Old(c, fg) + 1) % 256
         /\ New(c, bg) = Old(c, bg)

C6_UnnamedUnchanged ==
  \A c \in Categories :
    ( /\ called # "none"
      /\ \A i \in 1..Len(tokens) :
           tokens[i].category \notin {all, c} /\ tokens[i].sep = <<" ">> )
      => /\ New(c, fg) = Old(c, fg)
         /\ New(c, bg) = Old(c, bg)

\* C7: offset_color returns an object other than the caller's, and every
\* index reachable from the caller's document is what it was before the call.
C7_CallerDocumentNotMutated ==
  called # "none"
    => /\ updated_config # caller_config
       /\ \A c \in Categories, channel \in {fg, bg} :
            Index(heap, caller_config, c, channel) = Old(c, channel)

\* ---------------------------------------- claims on the background filter
\* an emitted value that carries the filter's wrapper
Wrapped(v) == Len(v) > 0 /\ v[1] = ESC

\* the value with the wrapper's escape sequences removed
Bare(v) ==
  IF Wrapped(v)
  THEN LET n == CHOOSE n \in 1..Len(v) :
                  v[n] = "m" /\ \A j \in 1..(n - 1) : v[j] # "m"
       IN  SubSeq(v, n + 1, Len(v) - Len(reset_color))
  ELSE v

RECURSIVE Flat(_)
Flat(values) ==
  IF values = <<>> THEN <<>> ELSE Head(values) \o Flat(Tail(values))

Values(toks) == [k \in 1..Len(toks) |-> toks[k].value]
BareValues(toks) == [k \in 1..Len(toks) |-> Bare(toks[k].value)]

Newlines(s) == Cardinality({j \in 1..Len(s) : s[j] = NL})

\* the 1-based text line on which the k-th emitted token starts
LineOf(k) == 1 + Newlines(Flat(Values(SubSeq(emitted, 1, k - 1))))

\* the newline the filter emits on its own after a wrapped segment
ClosesWrapped(k) ==
  /\ emitted[k].value = <<NL>>
  /\ k > 1
  /\ Wrapped(emitted[k - 1].value)

\* C19: whatever the token stream and the set of line numbers, every emitted
\* value is one segment of one text line (a newline can only be its last
\* character, and a wrapped value holds none), the segments together are the
\* text that went in, and a segment is wrapped with the background colour
\* if and only if the 1-based number of its text line is in the set; this
\* holds for tokens that span several lines too.
C19_WrapsExactlyHighlightedLines ==
  /\ Flat(BareValues(emitted)) = Flat(Values(SubSeq(stream, 1, consumed)))
  /\ \A k \in 1..Len(emitted) :
       LET v == emitted[k].value
       IN  /\ \A j \in 1..(Len(v) - 1) : v[j] # NL
           /\ Wrapped(v) => Newlines(v) = 0
           /\ ~ClosesWrapped(k) =>
                (Wrapped(v) <=> LineOf(k) \in lines_to_highlight)

\* a token spanning two lines went through, one of its lines highlighted and
\* the other not
C19_Witness ==
  /\ consumed = Len(stream)
  /\ \E k \in 1..Len(stream) : stream[k].value = <<"a", NL, "b">>
  /\ \E k \in 1..Len(emitted) : Wrapped(emitted[k].value)
  /\ \E k \in 1..Len(emitted) :
       ~Wrapped(emitted[k].value) /\ ~ClosesWrapped(k)
         /\ Len(emitted[k].value) > 0
  /\ 2 \in lines_to_highlight
  /\ 1 \notin lines_to_highlight

\* ------------------------------------------------- claims on the viewer
\* the named input file is to be opened and does not exist
NamedFileMissing ==
  /\ command.parser = "ok"
  /\ command.args.filename # ""
  /\ ~environ.file.exists

\* C17: a run of the viewer that ends on a success path - the usage asked
\* for with -h or --help, the mascot alone (--meow), or the highlighted text
\* printed - exits with code 0; a run whose named input file does not
\* exist, or in which an exception reaches main's handler, exits with code 1.
C17_ExitCodes ==
  exited =>
    /\ command.parser = "help" => exit_code = 0
    /\ ended.stage \in {"meow", "print"} => exit_code = 0
    /\ NamedFileMissing => exit_code = 1
    /\ ended.raised # "none" => exit_code = 1

\* a run on a file that does not exist has ended
C17_Witness ==
  /\ exited
  /\ NamedFileMissing
  /\ environ.isatty
  /\ ended.raised = "FileNotFoundError"
  /\ exit_code = 1

\* the lexer lookup detect_language_type tries for this run finds no lexer
LookupFails ==
  lexer_lookup(command.args.filename, command.args.language,
               environ.guess).raised # "none"

\* the run got as far as calling detect_language_type
ReachedDetection ==
  ended.stage \in {"detect_language_type", "only_show_lines", "highlight",
                   "print"}

\* C18: detect_language_type never raises: whatever the input text, the
\* filename and the explicit language, a run that calls it goes on past it,
\* no ClassNotFound reaches main's handler, and when the library finds no
\* lexer the lexer it returns is the plain-text lexer.
C18_DetectionNeverRaises ==
  (exited /\ ReachedDetection) =>
    /\ ended.stage # "detect_language_type"
    /\ ended.raised # "ClassNotFound"
    /\ LookupFails => ended.lexer = Lexer("text", TRUE)
    /\ ended.lookup_failed = LookupFails

\* the library found no lexer and the text was printed all the same
C18_Witness ==
  /\ exited
  /\ LookupFails
  /\ ended.stage = "print"
  /\ ended.lexer.alias = "text"
  /\ exit_code = 0

\* a printed value that carries a 256-colour background escape code
HasBackground(v) == Contains(v, <<ESC, "[", "4", "8", ";", "5", ";">>)

\* --background-color was given as a decimal index in 0..255
IndexGiven ==
  /\ command.args.background_color # <<>>
  /\ int(command.args.background_color).raised = "none"
  /\ int(command.args.background_color).v \in 0..255

\* C20: when --background-color gives an index n in 0..255, every
\* highlighted value printed is wrapped with the background escape code for
\* exactly n; the code for the default index 232 appears only when no index
\* was given (or 232 itself was given).
C20_BackgroundIndexUsed ==
  (exited /\ ended.stage = "print") =>
    \A k \in 1..Len(ended.printed) :
      HasBackground(ended.printed[k].value) =>
        IF IndexGiven
        THEN Contains(ended.printed[k].value,
                      bg_color_code(int(command.args.background_color).v))
        ELSE Contains(ended.printed[k].value, bg_color_code(232))

\* ------------------------------------------- claims on what the viewer prints
\* The printed text as a terminal shows it: every character that is not part
\* of an escape sequence, with whether a background colour is switched on
\* when it is written.  '\033[48;5;Nm' switches the background on,
\* '\033[0m' switches everything off, other sequences leave it as it is.
RECURSIVE Painted(_, _)
Painted(out, on) ==
  IF out = <<>> THEN <<>>
  ELSE IF Head(out) = ESC
  THEN LET n == CHOOSE n \in 1..Len(out) :
                  out[n] = "m" /\ \A j \in 1..(n - 1) : out[j] # "m"
           code == SubSeq(out, 1, n)
       IN  Painted(SubSeq(out, n + 1, Len(out)),
                   IF code = reset_color THEN FALSE
                   ELSE IF HasBackground(code) THEN TRUE
                   ELSE on)
  ELSE <<[c |-> Head(out), on |-> on]>> \o Painted(Tail(out), on)

\* the painted characters cut into text lines
RECURSIVE PaintedLines(_)
PaintedLines(cells) ==
  IF \E i \in 1..Len(cells) : cells[i].c = NL
  THEN LET i == CHOOSE i \in 1..Len(cells) :
                  cells[i].c = NL /\ \A j \in 1..(i - 1) : cells[j].c # NL
       IN  <<SubSeq(cells, 1, i - 1)>>
             \o PaintedLines(SubSeq(cells, i + 1, Len(cells)))
  ELSE <<cells>>

PrintedLines == PaintedLines(Painted(Flat(Values(ended.printed)), FALSE))

LineText(cells) == [i \in 1..Len(cells) |-> cells[i].c]
AllPainted(cells) == \A i \in 1..Len(cells) : cells[i].on
NonePainted(cells) == \A i \in 1..Len(cells) : ~cells[i].on

\* a run that printed its text with a regex pattern and no --highlight-lines
RegexOnly ==
  /\ exited
  /\ ended.stage = "print"
  /\ command.args.regex_pattern # <<>>
  /\ command.args.highlight_lines = <<>>

\* C21: when a regex pattern is given, the text lines that match the pattern
\* are background-highlighted and every line that does not match is written
\* without a background, however the lexer cut the text into tokens (a
\* token that spans several lines does not get its non-matching lines
\* highlighted).
C21_ExactlyMatchingLinesHighlighted ==
  RegexOnly =>
    \A l \in 1..Len(PrintedLines) :
      IF Contains(LineText(PrintedLines[l]), command.args.regex_pattern)
      THEN AllPainted(PrintedLines[l])
      ELSE NonePainted(PrintedLines[l])

\* --------------------------------------------------- claims on line ranges
\* the grammar of a string of line ranges: parts separated by commas, each
\* part a number or two numbers joined by '-'
IsNumber(p) == Len(p) > 0 /\ \A i \in 1..Len(p) : p[i] \in Digits
IsRange(p) ==
  /\ Cardinality({i \in 1..Len(p) : p[i] = "-"}) = 1
  /\ LET i == CHOOSE i \in 1..Len(p) : p[i] = "-"
     IN  IsNumber(SubSeq(p, 1, i - 1)) /\ IsNumber(SubSeq(p, i + 1, Len(p)))
WellFormedRanges(s) ==
  s = <<>> \/ \A k \in 1..Len(Split(s, ",")) :
                 IsNumber(Split(s, ",")[k]) \/ IsRange(Split(s, ",")[k])

\* the lines one part stands for
PartMeans(p) ==
  IF IsNumber(p) THEN {ParseDigits(p)}
  ELSE LET i == CHOOSE i \in 1..Len(p) : p[i] = "-"
           a == ParseDigits(SubSeq(p, 1, i - 1))
           b == ParseDigits(SubSeq(p, i + 1, Len(p)))
       IN  IF a > b THEN {} ELSE {n \in a..b : TRUE}

\* the lines a well-formed string stands for
Means(s) ==
  IF s = <<>> THEN {}
  ELSE UNION {PartMeans(Split(s, ",")[k]) : k \in 1..Len(Split(s, ","))}

\* the k-th smallest member of a finite set of numbers
Nth(S, k) == CHOOSE n \in S : Cardinality({j \in S : j < n}) = k - 1

\* C22: filter_lines_by_range_with_line_numbers returns the input lines
\* whose 1-based index is in the set the range string stands for, each once
\* and in the order of the input; when line numbers are asked for, each
\* kept line is prefixed with its number in the input (four digits, a colon
\* and a space), not with its position among the kept lines.
C22_KeepsListedLinesInOrder ==
  ("filter_lines" \in calls_made /\ WellFormedRanges(ranges_arg)) =>
    LET lines == splitlines(text_arg)
        Kept == {i \in 1..Len(lines) : i \in Means(ranges_arg)}
        shown == [k \in 1..Cardinality(Kept) |->
                    (IF numbers_arg
                     THEN <<"0", "0", "0">> \o NatText(Nth(Kept, k))
                            \o <<":", " ">>
                     ELSE <<>>) \o lines[Nth(Kept, k)]]
    IN  /\ filter_out.raised = "none"
        /\ IF Kept = {} THEN filter_out.v = <<>>
           ELSE Split(filter_out.v, NL) = shown

\* lines 1 and 3 of a three-line text were asked for as '3,1', with numbers
C22_Witness ==
  /\ "filter_lines" \in calls_made
  /\ ranges_arg = <<"3", ",", "1">>
  /\ text_arg = <<"a", NL, "b", NL, "c">>
  /\ numbers_arg
  /\ filter_out.v = <<"0", "0", "0", "1", ":", " ", "a", NL,
                      "0", "0", "0", "3", ":", " ", "c">>

\* C23: for a well-formed string parse_line_ranges returns the union of its
\* single numbers and of the inclusive ranges a..b of its parts 'a-b'; the
\* empty string gives the empty set, and a range with a > b gives no line.
C23_UnionOfNumbersAndRanges ==
  ("parse_line_ranges" \in calls_made /\ WellFormedRanges(ranges_arg)) =>
    /\ parse_out.raised = "none"
    /\ parse_out.v = Means(ranges_arg)

\* a single number and the range 1-3 in one string
C23_Witness ==
  /\ "parse_line_ranges" \in calls_made
  /\ \E a, b \in {1, 3} :
       ranges_arg = NatText(b) \o <<",">> \o NatText(a) \o <<"-", "3">>
         /\ parse_out.v = {b} \cup (a..3)
  /\ 2 \in parse_out.v

\* ------------------------------------------ claims on the validator's lists
\* the key paths of a required structure in its own order, a sub-mapping's
\* key before the keys below it
RECURSIVE SchemaPaths(_, _)
SchemaPaths(s, path) ==
  IF s = <<>> THEN <<>>
  ELSE <<Append(path, Head(s).key)>>
         \o (IF Head(s).kind = "dict"
             THEN SchemaPaths(Head(s).sub, Append(path, Head(s).key))
             ELSE <<>>)
         \o SchemaPaths(Tail(s), path)

Dotted(paths) == [k \in 1..Len(paths) |-> Join(paths[k], ".")]

\* where a dotted path stands in the schema's order (0: not a schema path)
SchemaPosition(p) ==
  LET all_paths == Dotted(SchemaPaths(structure, <<>>))
  IN  IF \E k \in 1..Len(all_paths) : all_paths[k] = p
      THEN CHOOSE k \in 1..Len(all_paths) : all_paths[k] = p
      ELSE 0

\* a list of schema paths, each once, in the schema's order
InSchemaOrder(list) ==
  /\ \A i \in 1..Len(list) : SchemaPosition(list[i]) > 0
  /\ \A i, j \in 1..Len(list) :
       i < j => SchemaPosition(list[i]) < SchemaPosition(list[j])

\* what the document holds at a key path; None when the path leaves the
\* mappings
RECURSIVE ValueAt(_, _)
ValueAt(doc, path) ==
  IF path = <<>> THEN doc
  ELSE IF doc.t = "dict" /\ Head(path) \in DOMAIN doc.v
  THEN ValueAt(doc.v[Head(path)], Tail(path))
  ELSE NoneV

\* the paths of a required structure's sub-mappings
RECURSIVE NestedPaths(_, _)
NestedPaths(s, path) ==
  IF s = <<>> THEN {}
  ELSE (IF Head(s).kind = "dict"
        THEN {Append(path, Head(s).key)}
               \cup NestedPaths(Head(s).sub, Append(path, Head(s).key))
        ELSE {})
       \cup NestedPaths(Tail(s), path)

SubMappingPaths == NestedPaths(structure, <<>>)

\* check_structure gets to the path: everything above it is a mapping
Reached(path) ==
  \A n \in 0..(Len(path) - 1) : ValueAt(config, SubSeq(path, 1, n)).t = "dict"

Below(p, q) ==
  Len(q) > Len(p) + 1 /\ SubSeq(q, 1, Len(p) + 1) = p \o <<".">>

Reported == {missing[i] : i \in 1..Len(missing)}
              \cup {incorrect_type[i] : i \in 1..Len(incorrect_type)}

\* C24: both lists hold dotted paths of schema keys only, each at most once
\* and in the schema's order; no path is in both lists; and when a required
\* sub-mapping is absent or is not a mapping, its own path is reported as
\* missing and no path below it is reported at all.
C24_ListsFollowSchema ==
  checked =>
    /\ InSchemaOrder(missing)
    /\ InSchemaOrder(incorrect_type)
    /\ \A i \in 1..Len(missing), j \in 1..Len(incorrect_type) :
         missing[i] # incorrect_type[j]
    /\ \A path \in SubMappingPaths :
         (Reached(path) /\ ValueAt(config, path).t # "dict") =>
           /\ Join(path, ".") \in {missing[i] : i \in 1..Len(missing)}
           /\ \A q \in Reported : ~Below(Join(path, "."), q)

\* color_settings.comma holds a list where a sub-mapping is required, and
\* another key is reported too
C24_Witness ==
  /\ checked
  /\ structure = required_structure
  /\ ValueAt(config, <<color_settings, comma>>).t = "list"
  /\ Join(<<color_settings, comma>>, ".") \in Reported
  /\ Len(missing) > 1
  /\ Len(incorrect_type) > 0

\* ------------------------------------------- claims on edits of absent keys
\* the intermediate segments of the edit's path lead through mappings to a
\* mapping that does not hold the last segment
LeafAbsent(doc, m) ==
  /\ WellFormed(m)
  /\ HasPath(doc, SubSeq(PathOf(m), 1, Len(PathOf(m)) - 1))
  /\ get_at(doc, SubSeq(PathOf(m), 1, Len(PathOf(m)) - 1)).t = "dict"
  /\ PathOf(m)[Len(PathOf(m))] \notin
       DOMAIN get_at(doc, SubSeq(PathOf(m), 1, Len(PathOf(m)) - 1)).v

\* the edits of the argument are the pairs of the request, one each
OnePerPair == request.sep = " " \/ Len(request.pairs) = 1

\* C25: an edit whose leaf key is absent from the mapping its intermediate
\* segments lead to is skipped: the document after it is the document
\* before it (so no key is created), no error is raised, and the next edit
\* of the batch is started on that document.
C25_AbsentLeafSkipped ==
  \A i \in 1..Len(steps) :
    LeafAbsent(steps[i].before, steps[i].modification) =>
      /\ steps[i].after = steps[i].before
      /\ steps[i].err = "none"
      /\ (OnePerPair /\ i < Len(request.pairs)) =>
           /\ Len(steps) > i
           /\ steps[i + 1].before = steps[i].before
           /\ steps[i + 1].modification = request.pairs[i + 1]

\* an edit of an absent leaf key was skipped and the edit after it changed
\* the document
C25_Witness ==
  /\ Len(steps) = 2
  /\ LeafAbsent(steps[1].before, steps[1].modification)
  /\ steps[1].after = steps[1].before
  /\ Resolves(steps[2].before, steps[2].modification)
  /\ steps[2].after # steps[2].before
  /\ err = "none"


\* ------------------------------- claims on the background filter's counter
\* the text of the tokens pulled from the stream so far
ConsumedText == Flat(Values(SubSeq(stream, 1, consumed)))

\* C26: after any prefix of the token stream the filter's line counter is
\* 1 plus the number of newline characters pulled so far, and the emitted
\* values, with the escape sequences the filter put in taken out again,
\* concatenate to the concatenation of the values pulled.
C26_CounterExactAndContentKept ==
  /\ line_number = 1 + Newlines(ConsumedText)
  /\ Flat(BareValues(emitted)) = ConsumedText

\* three tokens went through, two newlines among them, one line wrapped and
\* an empty value among the tokens
C26_Witness ==
  /\ consumed = 3
  /\ line_number = 3
  /\ \E k \in 1..3 : stream[k].value = <<>>
  /\ \E k \in 1..Len(emitted) : Wrapped(emitted[k].value)
  /\ \E k \in 1..Len(emitted) : ~Wrapped(emitted[k].value)

\* ---------------------------------------------- claims on plain output
\* a run in 'plain' output mode that called highlight_with_colorcat_colors
\* with a pattern, if any, that compiles
PlainCall ==
  /\ exited
  /\ command.parser = "ok"
  /\ command.args.output = "plain"
  /\ ended.stage \in {"highlight", "print"}
  /\ command.args.regex_pattern # <<>> =>
       re_compile(command.args.regex_pattern).raised = "none"

\* C27: in 'plain' output mode highlight_with_colorcat_colors returns the
\* text for every combination of options and raises nothing, also when no
\* lines to highlight are given, with a regex pattern or without one.
C27_PlainReturnsText ==
  PlainCall =>
    /\ ended.raised = "none"
    /\ ended.stage = "print"
    /\ Flat(BareValues(ended.printed)) # <<>>

\* ------------------------------------------ claims on SpecificHighlightFilter
\* a run in 'formatted' mode whose only filter is SpecificHighlightFilter
SpecificOnly ==
  /\ exited
  /\ command.parser = "ok"
  /\ command.args.output = "formatted"
  /\ ended.stage \in {"highlight", "print"}
  /\ command.args.regex_pattern = <<>>
  /\ command.args.highlight_lines = <<>>
  /\ command.args.only_show_lines = <<>>

\* the text the run read
InputText ==
  IF command.args.filename # "" THEN environ.file.text ELSE environ.stdin

\* the tokens the run's lexer handed to the filter
LexedTokens == get_tokens(ended.lexer, InputText, environ.lexing)

\* C28: SpecificHighlightFilter never raises and yields exactly one token
\* for every token it is given, in stream order, whose value holds the
\* value it was given unchanged - whatever the token's type
\* (Generic.Subheading included) and value.
C28_OneTokenOutPerTokenIn ==
  SpecificOnly =>
    /\ ended.raised = "none"
    /\ Len(ended.printed) = Len(LexedTokens)
    /\ \A k \in 1..Len(LexedTokens) :
         Contains(ended.printed[k].value, LexedTokens[k].value)

\* ----------------------------- claims on --only-show-lines with --highlight-lines
\* a run that printed its text with both --only-show-lines and
\* --highlight-lines given
ShownAndHighlighted ==
  /\ exited
  /\ ended.stage = "print"
  /\ command.args.only_show_lines # <<>>
  /\ command.args.highlight_lines # <<>>

\* the numbers, in the input, of the lines --only-show-lines keeps
ShownNumbers ==
  {i \in 1..Len(splitlines(InputText)) : i \in Means(command.args.only_show_lines)}

\* C29: with --only-show-lines and --highlight-lines together, each line
\* displayed is written on the highlight background if and only if its
\* number in the input is one of the --highlight-lines numbers; the numbers
\* are not taken as positions in the text that is left after filtering.
C29_HighlightByOriginalNumber ==
  ShownAndHighlighted =>
    /\ Len(PrintedLines) >= Cardinality(ShownNumbers)
    /\ \A l \in 1..Cardinality(ShownNumbers) :
         LineText(PrintedLines[l]) # <<>> =>
           IF Nth(ShownNumbers, l) \in Means(command.args.highlight_lines)
           THEN AllPainted(PrintedLines[l])
           ELSE NonePainted(PrintedLines[l])

\* --------------------------------------- claims on the theme manager's main
\* main has run on a command line that gives --modify-theme and --save-theme
ModifyAndSave ==
  /\ main_stage # "none"
  /\ cli.modify_theme # <<>>
  /\ cli.save_theme # <<>>

\* the document the apply_modifications loop left behind
ModifiedDocument == main_steps[Len(main_steps)].after

\* C30: when one invocation gives both --modify-theme and --save-theme, the
\* modifications are applied before the save: the file saved under the
\* given name holds the document as the modifications left it; and a theme
\* that is loaded afterwards and falls back on the built-in default gets the
\* built-in default document, whatever the modifications changed.
C30_SavedAfterModifiedDefaultKept ==
  /\ (ModifyAndSave /\ main_raised = "none") =>
       /\ main_stage = "end"
       /\ main_steps # <<>>
       /\ main_steps[1].before = get_default_theme_config
       /\ memory[instance_config] = ModifiedDocument
       /\ disk[cli.save_theme] # NoFile
       /\ yaml_safe_load(disk[cli.save_theme]) = ModifiedDocument
  /\ (later.config # 0 /\ later.builtin) =>
       /\ later.config # instance_config
       /\ memory[later.config] = get_default_theme_config

\* the theme name was changed and saved as 'default', and a theme without a
\* file that was loaded afterwards got the built-in default
C30_Witness ==
  /\ ModifyAndSave
  /\ main_stage = "end"
  /\ cli.save_theme = default
  /\ get_at(yaml_safe_load(disk[default]), <<config_settings, theme_name_key>>)
       = StrV(<<"x">>)
  /\ memory[instance_config] # get_default_theme_config
  /\ later.name = mytheme
  /\ later.builtin
  /\ memory[later.config] = get_default_theme_config

==============================================================================
